---- MODULE Spec2Model ----
(***************************************************************************)
(* Command-safety core of mentat-cli: the SafetyPatternEngine              *)
(* (safety/patterns.py), the approval stores and the ConsoleApprovalManager*)
(* (safety/approvals.py).                                                  *)
(*                                                                         *)
(* Strings are sequences of one-character strings, so that strip(), glob   *)
(* matching, regex matching and substring search are computed character by *)
(* character as the Python code and its library calls compute them.        *)
(***************************************************************************)
EXTENDS Integers, Sequences, FiniteSets, TLC

(***************************************************************************)
(* Bounds of the model.                                                    *)
(***************************************************************************)
\* Largest number of rules (allow + deny together) an engine holds.
MaxRules == 3

(***************************************************************************)
(* String helpers (Python str methods).                                    *)
(***************************************************************************)
\* str.strip() removes leading and trailing whitespace characters.
Whitespace == {" ", "\t", "\n", "\r"}

RECURSIVE LStrip(_)
LStrip(s) ==
  IF Len(s) > 0 /\ Head(s) \in Whitespace THEN LStrip(Tail(s)) ELSE s

RECURSIVE RStrip(_)
RStrip(s) ==
  IF Len(s) > 0 /\ s[Len(s)] \in Whitespace
  THEN RStrip(SubSeq(s, 1, Len(s) - 1))
  ELSE s

Strip(s) == RStrip(LStrip(s))

\* str.startswith / str.endswith with a one-character argument.
StartsWithChar(s, c) == Len(s) > 0 /\ s[1] = c
EndsWithChar(s, c) == Len(s) > 0 /\ s[Len(s)] = c

\* `sub in s` for strings: sub occurs as a contiguous slice of s.
Contains(s, sub) ==
  \E i \in 0..(Len(s) - Len(sub)) : SubSeq(s, i + 1, i + Len(sub)) = sub

\* str.lower() on the ASCII letters.
UpperToLower ==
  [c \in {"A","B","C","D","E","F","G","H","I","J","K","L","M",
          "N","O","P","Q","R","S","T","U","V","W","X","Y","Z"} |->
     CASE c = "A" -> "a" [] c = "B" -> "b" [] c = "C" -> "c" [] c = "D" -> "d"
       [] c = "E" -> "e" [] c = "F" -> "f" [] c = "G" -> "g" [] c = "H" -> "h"
       [] c = "I" -> "i" [] c = "J" -> "j" [] c = "K" -> "k" [] c = "L" -> "l"
       [] c = "M" -> "m" [] c = "N" -> "n" [] c = "O" -> "o" [] c = "P" -> "p"
       [] c = "Q" -> "q" [] c = "R" -> "r" [] c = "S" -> "s" [] c = "T" -> "t"
       [] c = "U" -> "u" [] c = "V" -> "v" [] c = "W" -> "w" [] c = "X" -> "x"
       [] c = "Y" -> "y" [] c = "Z" -> "z"]

Lower(s) ==
  [i \in 1..Len(s) |-> IF s[i] \in DOMAIN UpperToLower THEN UpperToLower[s[i]] ELSE s[i]]

(***************************************************************************)
(* fnmatch.fnmatch(name, pat) on POSIX (normcase is the identity): the     *)
(* whole name must match; `*` is any run of characters, `?` any one        *)
(* character, `[seq]` / `[!seq]` a character class, and a `[` without a    *)
(* closing `]` is a literal.  Classes are modelled for sets without a `-`  *)
(* range.                                                                  *)
(***************************************************************************)
\* Index of the `]` closing the class opened at pat[i] = "[", 0 if none
\* (the scan of fnmatch.translate: skip a leading `!`, then a leading `]`).
RECURSIVE ScanToBracket(_, _)
ScanToBracket(pat, j) ==
  IF j > Len(pat) THEN 0
  ELSE IF pat[j] = "]" THEN j
  ELSE ScanToBracket(pat, j + 1)

GlobClassEnd(pat, i) ==
  LET j1 == IF i + 1 <= Len(pat) /\ pat[i + 1] = "!" THEN i + 2 ELSE i + 1
      j2 == IF j1 <= Len(pat) /\ pat[j1] = "]" THEN j1 + 1 ELSE j1
  IN ScanToBracket(pat, j2)

\* Does character c belong to the class pat[i..j] (pat[i] = "[", pat[j] = "]")?
GlobClassHas(pat, i, j, c) ==
  LET negated == pat[i + 1] = "!"
      first == IF negated THEN i + 2 ELSE i + 1
      members == {pat[m] : m \in first..(j - 1)}
  IN IF negated THEN c \notin members ELSE c \in members

RECURSIVE GlobFrom(_, _, _, _)
GlobFrom(name, pat, k, i) ==
  IF i > Len(pat) THEN k > Len(name)
  ELSE IF pat[i] = "*" THEN
    \E k2 \in k..(Len(name) + 1) : GlobFrom(name, pat, k2, i + 1)
  ELSE IF pat[i] = "?" THEN
    k <= Len(name) /\ GlobFrom(name, pat, k + 1, i + 1)
  ELSE IF pat[i] = "[" /\ GlobClassEnd(pat, i) # 0 THEN
    LET j == GlobClassEnd(pat, i)
    IN k <= Len(name) /\ GlobClassHas(pat, i, j, name[k])
       /\ GlobFrom(name, pat, k + 1, j + 1)
  ELSE
    k <= Len(name) /\ name[k] = pat[i] /\ GlobFrom(name, pat, k + 1, i + 1)

FnMatch(name, pat) == GlobFrom(name, pat, 1, 1)

(***************************************************************************)
(* re.match / re.search / re.compile for the regex syntax the rules and    *)
(* the risk ladders use: literals, `.`, `^`, `$`, `\s`, `\d`, an escaped   *)
(* punctuation character, `[set]` / `[^set]` without ranges, and the       *)
(* quantifiers `*`, `+`, `?` (optionally lazy).  A `(` or `)` that has no  *)
(* partner, a quantifier with nothing to repeat, an unterminated `[` and a *)
(* trailing `\` are compile errors (re.error).  A counted repetition `{n}` *)
(* repeats its atom n times, and a count of MAXREPEAT or more makes the     *)
(* compilation raise OverflowError, which is not an re.error.  Balanced     *)
(* groups, `|` and `{m,n}` are outside the modelled syntax and no modelled  *)
(* rule uses them.                                                          *)
(***************************************************************************)
RegexWhitespace == {" ", "\t", "\n", "\r", "\f"}
Digits == {"0", "1", "2", "3", "4", "5", "6", "7", "8", "9"}
Quantifiers == {"*", "+", "?"}

RegexItem(t, c, set, q) == [t |-> t, c |-> c, set |-> set, q |-> q]
RegexBad == [ok |-> FALSE, items |-> <<>>, error |-> "re.error"]
\* sre_parse: `raise OverflowError("the repetition number is too large")`
RegexOverflow == [ok |-> FALSE, items |-> <<>>, error |-> "OverflowError"]

\* MAXREPEAT (4294967295 on a 64-bit build), as its decimal digits.
MaxRepeatDigits == <<"4", "2", "9", "4", "9", "6", "7", "2", "9", "5">>
DigitValue ==
  [c \in Digits |->
     CASE c = "0" -> 0 [] c = "1" -> 1 [] c = "2" -> 2 [] c = "3" -> 3
       [] c = "4" -> 4 [] c = "5" -> 5 [] c = "6" -> 6 [] c = "7" -> 7
       [] c = "8" -> 8 [] c = "9" -> 9]

\* Index after the run of digits that starts at p[j].
RECURSIVE DigitsEnd(_, _)
DigitsEnd(p, j) ==
  IF j <= Len(p) /\ p[j] \in Digits THEN DigitsEnd(p, j + 1) ELSE j

\* Index of the `}` closing the counted repetition opened at p[i] = "{", 0
\* when p[i..] is not of the form `{digits}` (the brace is then a literal).
CountedEnd(p, i) ==
  LET j == DigitsEnd(p, i + 1)
  IN IF j > i + 1 /\ j <= Len(p) /\ p[j] = "}" THEN j ELSE 0

RECURSIVE StripZeros(_)
StripZeros(d) ==
  IF Len(d) > 1 /\ Head(d) = "0" THEN StripZeros(Tail(d)) ELSE d

\* int(d) >= int(bound) for two digit strings, bound without leading zeros.
DecimalAtLeast(d, bound) ==
  LET x == StripZeros(d) IN
  \/ Len(x) > Len(bound)
  \/ /\ Len(x) = Len(bound)
     /\ \/ x = bound
        \/ \E i \in 1..Len(x) :
             /\ SubSeq(x, 1, i - 1) = SubSeq(bound, 1, i - 1)
             /\ DigitValue[x[i]] > DigitValue[bound[i]]

\* int(d) for a digit string below MAXREPEAT.
RECURSIVE DecimalValue(_)
DecimalValue(d) ==
  IF Len(d) = 0 THEN 0
  ELSE 10 * DecimalValue(SubSeq(d, 1, Len(d) - 1)) + DigitValue[d[Len(d)]]

\* The item repeated n times.
Repeat(item, n) == [k \in 1..n |-> item]

\* Index of the `]` closing the regex class opened at p[i] = "[", 0 if none:
\* a `]` directly after `[` or `[^` is a member, not the end.
RegexClassEnd(p, i) ==
  LET j1 == IF i + 1 <= Len(p) /\ p[i + 1] = "^" THEN i + 2 ELSE i + 1
      j2 == IF j1 <= Len(p) /\ p[j1] = "]" THEN j1 + 1 ELSE j1
  IN ScanToBracket(p, j2)

\* The atom starting at p[i]: [ok, item, next], next the index after it.
RegexAtom(p, i) ==
  LET c == p[i] IN
  IF c = "." THEN
    [ok |-> TRUE, item |-> RegexItem("any", "", {}, "1"), next |-> i + 1]
  ELSE IF c = "\\" THEN
    IF i = Len(p) THEN [ok |-> FALSE, item |-> RegexItem("lit", "", {}, "1"), next |-> i]
    ELSE IF p[i + 1] = "s" THEN
      [ok |-> TRUE, item |-> RegexItem("set", "", RegexWhitespace, "1"), next |-> i + 2]
    ELSE IF p[i + 1] = "d" THEN
      [ok |-> TRUE, item |-> RegexItem("set", "", Digits, "1"), next |-> i + 2]
    ELSE
      [ok |-> TRUE, item |-> RegexItem("lit", p[i + 1], {}, "1"), next |-> i + 2]
  ELSE IF c = "[" THEN
    LET j == RegexClassEnd(p, i)
        negated == i + 1 <= Len(p) /\ p[i + 1] = "^"
        first == IF negated THEN i + 2 ELSE i + 1
    IN IF j = 0 THEN [ok |-> FALSE, item |-> RegexItem("lit", "", {}, "1"), next |-> i]
       ELSE [ok |-> TRUE,
             item |-> RegexItem(IF negated THEN "nset" ELSE "set", "",
                                {p[m] : m \in first..(j - 1)}, "1"),
             next |-> j + 1]
  ELSE
    [ok |-> TRUE, item |-> RegexItem("lit", c, {}, "1"), next |-> i + 1]

RECURSIVE RegexParseFrom(_, _, _)
RegexParseFrom(p, i, acc) ==
  IF i > Len(p) THEN [ok |-> TRUE, items |-> acc, error |-> "none"]
  ELSE IF p[i] \in Quantifiers \cup {"(", ")"} THEN RegexBad
  ELSE IF p[i] = "{" /\ CountedEnd(p, i) # 0 THEN RegexBad
  ELSE IF p[i] \in {"^", "$"} THEN
    IF i + 1 <= Len(p) /\ p[i + 1] \in Quantifiers THEN RegexBad
    ELSE RegexParseFrom(p, i + 1,
           Append(acc, RegexItem(IF p[i] = "^" THEN "bol" ELSE "eol", "", {}, "1")))
  ELSE
    LET a == RegexAtom(p, i) IN
    IF ~a.ok THEN RegexBad
    ELSE IF a.next <= Len(p) /\ p[a.next] \in Quantifiers THEN
      LET lazy == a.next + 1 <= Len(p) /\ p[a.next + 1] = "?"
      IN RegexParseFrom(p, IF lazy THEN a.next + 2 ELSE a.next + 1,
           Append(acc, [a.item EXCEPT !.q = p[a.next]]))
    ELSE IF a.next <= Len(p) /\ p[a.next] = "{" /\ CountedEnd(p, a.next) # 0 THEN
      LET j == CountedEnd(p, a.next)
          count == SubSeq(p, a.next + 1, j - 1)
          lazy == j + 1 <= Len(p) /\ p[j + 1] = "?"
      IN IF DecimalAtLeast(count, MaxRepeatDigits) THEN RegexOverflow
         ELSE RegexParseFrom(p, IF lazy THEN j + 2 ELSE j + 1,
                acc \o Repeat(a.item, DecimalValue(count)))
    ELSE RegexParseFrom(p, a.next, Append(acc, a.item))

\* re.compile(pattern): the parsed items, or ok = FALSE and the exception
\* raised (re.error or OverflowError).
RegexCompile(p) == RegexParseFrom(p, 1, <<>>)

RegexAtomMatches(item, c) ==
  CASE item.t = "lit" -> c = item.c
    [] item.t = "any" -> c # "\n"
    [] item.t = "set" -> c \in item.set
    [] item.t = "nset" -> c \notin item.set
    [] OTHER -> FALSE

\* Can items[i..] match s starting at position k (any end position)?
RECURSIVE RegexFrom(_, _, _, _)
RegexFrom(items, s, k, i) ==
  IF i > Len(items) THEN TRUE
  ELSE LET it == items[i] IN
    IF it.t = "bol" THEN k = 1 /\ RegexFrom(items, s, k, i + 1)
    ELSE IF it.t = "eol" THEN
      (k = Len(s) + 1 \/ (k = Len(s) /\ s[k] = "\n")) /\ RegexFrom(items, s, k, i + 1)
    ELSE IF it.q = "1" THEN
      k <= Len(s) /\ RegexAtomMatches(it, s[k]) /\ RegexFrom(items, s, k + 1, i + 1)
    ELSE IF it.q = "?" THEN
      \/ RegexFrom(items, s, k, i + 1)
      \/ k <= Len(s) /\ RegexAtomMatches(it, s[k]) /\ RegexFrom(items, s, k + 1, i + 1)
    ELSE
      \E m \in (IF it.q = "+" THEN 1 ELSE 0)..(Len(s) - k + 1) :
        /\ \A x \in k..(k + m - 1) : RegexAtomMatches(it, s[x])
        /\ RegexFrom(items, s, k + m, i + 1)

\* bool(re.match(pattern, string)) for a pattern that compiles.
ReMatch(p, s) == RegexFrom(RegexCompile(p).items, s, 1, 1)

\* bool(re.search(pattern, string)) for a pattern that compiles.
ReSearch(p, s) ==
  \E k \in 1..(Len(s) + 1) : RegexFrom(RegexCompile(p).items, s, k, 1)

(***************************************************************************)
(* safety/validator.py: the enumerations and the records of the engine.    *)
(***************************************************************************)
\* ValidationResult values.
ALLOWED == "allowed"
DENIED == "denied"
REQUIRES_APPROVAL == "requires_approval"

\* ApprovalScope members, and the string value each member serialises to.
ONCE == "ONCE"
SESSION == "SESSION"
PERSISTENT == "PERSISTENT"
ApprovalScope == {ONCE, SESSION, PERSISTENT}

\* SafetyPattern(pattern, is_allow, description); the description is a text
\* for humans that no decision reads and is left out.
SafetyPattern(pattern, is_allow) == [pattern |-> pattern, is_allow |-> is_allow]

\* An Optional[T] value is <<>> for None and <<v>> for v.
None == <<>>
Some(v) == <<v>>

\* CommandValidation(command, result, matched_pattern, risk_level); the
\* explanation text is left out.
CommandValidation(command, result, matched_pattern, risk_level) ==
  [command |-> command, result |-> result,
   matched_pattern |-> matched_pattern, risk_level |-> risk_level]

(***************************************************************************)
(* The rule patterns and the commands the model draws its inputs from.      *)
(***************************************************************************)
Pat_ls == <<"l", "s">>
Pat_rm_any == <<"r", "m", " ", "*">>
Pat_rm_rf == <<"r", "m", " ", "-", "r", "f", "*">>
Pat_rm_rf_regex == <<"^", "r", "m", "\\", "s", "+", ".", "*", "-", "r", "f">>
Pat_star == <<"*">>
Pat_unclosed == <<"(", "l", "s">>
Pat_ls_end == <<"l", "s", "$">>
Pat_huge_repeat == <<"l", "{", "4", "2", "9", "4", "9", "6", "7", "2", "9", "5", "}">>
Pat_chown == <<"c", "h", "o", "w", "n", " ", "*">>
Pat_git_reset == <<"g", "i", "t", " ", "r", "e", "s", "e", "t", "*">>
Patterns ==
  {Pat_ls, Pat_rm_any, Pat_rm_rf, Pat_rm_rf_regex, Pat_star, Pat_unclosed, Pat_ls_end,
   Pat_huge_repeat, Pat_chown, Pat_git_reset}

Cmd_empty == <<>>
Cmd_blank == <<" ", " ">>
Cmd_ls == <<"l", "s">>
Cmd_ls_padded == <<" ", "l", "s", "\n">>
Cmd_rm_rf == <<"r", "m", " ", "-", "r", "f", " ", "/">>
Cmd_rm_rf_long == <<"r", "m", " ", "-", "r", "f", " ", "-", "-", "x">>
Cmd_sudo == <<"s", "u", "d", "o", " ", "l", "s">>
Cmd_unclosed == <<"(", "l", "s">>
Cmd_git_reset == <<"g", "i", "t", " ", "r", "e", "s", "e", "t">>
Cmd_chown == <<"c", "h", "o", "w", "n", " ", "x">>
Commands ==
  {Cmd_empty, Cmd_blank, Cmd_ls, Cmd_ls_padded, Cmd_rm_rf, Cmd_rm_rf_long, Cmd_sudo,
   Cmd_unclosed, Cmd_git_reset, Cmd_chown}

(***************************************************************************)
(* safety/patterns.py: SafetyPatternEngine.                                *)
(***************************************************************************)
\* _is_regex_pattern
RegexChars == {"(", ")", "[", "]", "{", "}", "+", "?", "\\"}

IsRegexPattern(pattern) ==
  \/ StartsWithChar(pattern, "^")
  \/ EndsWithChar(pattern, "$")
  \/ \E i \in 1..Len(pattern) : pattern[i] \in RegexChars

\* _matches_pattern: the exception that escapes the call ("none" when it
\* returns).  `except re.error` catches the re.error of a pattern that does
\* not compile; the OverflowError of a repetition count that is too large
\* is not an re.error and propagates.
MatchError(pattern) ==
  IF IsRegexPattern(pattern) /\ RegexCompile(pattern).error = "OverflowError"
  THEN "OverflowError"
  ELSE "none"

\* _matches_pattern, when it returns: a regex-like pattern is matched with
\* re.match, and with fnmatch when it does not compile; every other pattern
\* with fnmatch.
MatchesPattern(command, pattern) ==
  IF IsRegexPattern(pattern) /\ RegexCompile(pattern).ok
  THEN ReMatch(pattern, command)
  ELSE FnMatch(command, pattern)

\* command.strip() tabulated over the model's commands.
StripTable == [c \in Commands |-> Strip(c)]
StrippedCommands == {StripTable[c] : c \in Commands}

\* _matches_pattern tabulated over the model's commands (after strip()) and
\* patterns, so that each pair is matched once.
MatchTable ==
  [c \in StrippedCommands |-> [p \in Patterns |-> MatchesPattern(c, p)]]
Matches(command, pattern) == MatchTable[command][pattern]

\* _matches_pattern's exception tabulated over the model's patterns.
MatchErrorTable == [p \in Patterns |-> MatchError(p)]

\* _find_matching_pattern: the exception that escapes the scan, which stops
\* at the first pattern that matches.
RECURSIVE FindMatchingErrorFrom(_, _, _)
FindMatchingErrorFrom(command, patterns, i) ==
  IF i > Len(patterns) THEN "none"
  ELSE IF MatchErrorTable[patterns[i].pattern] # "none"
  THEN MatchErrorTable[patterns[i].pattern]
  ELSE IF Matches(command, patterns[i].pattern) THEN "none"
  ELSE FindMatchingErrorFrom(command, patterns, i + 1)

FindMatchingError(command, patterns) == FindMatchingErrorFrom(command, patterns, 1)

\* _find_matching_pattern: the first pattern of the list that matches.
RECURSIVE FindMatchingFrom(_, _, _)
FindMatchingFrom(command, patterns, i) ==
  IF i > Len(patterns) THEN None
  ELSE IF Matches(command, patterns[i].pattern) THEN Some(patterns[i])
  ELSE FindMatchingFrom(command, patterns, i + 1)

FindMatchingPattern(command, patterns) == FindMatchingFrom(command, patterns, 1)

\* `"--" in command` tabulated over the model's commands.
HasLongOption == [c \in StrippedCommands |-> Contains(c, <<"-", "-">>)]

\* _choose_deny_pattern without the long-option heuristic: glob always wins.
ChooseDenyPatternGlobFirst(command, glob_match, regex_match) ==
  IF glob_match # None THEN glob_match ELSE regex_match

\* _choose_deny_pattern
ChooseDenyPattern(command, glob_match, regex_match) ==
  IF glob_match # None /\ regex_match # None
  THEN IF HasLongOption[command] THEN regex_match ELSE glob_match
  ELSE IF glob_match # None THEN glob_match ELSE regex_match

\* _assess_risk_level: the keyword lists, in the order the code scans them.
CriticalKeywords ==
  << <<"r", "m", " ", "-", "r", "f">>,
     <<"f", "o", "r", "m", "a", "t">>,
     <<"d", "d", " ", "i", "f", "=">>,
     <<"s", "u", "d", "o", " ", "r", "m">>,
     <<"d", "e", "l", " ", "/", "s">>,
     <<"r", "m", "d", "i", "r", " ", "/", "s">>,
     <<">", " ", "/", "d", "e", "v", "/">>,
     <<"c", "h", "m", "o", "d", " ", "7", "7", "7">>,
     <<"c", "h", "o", "w", "n">>,
     <<"m", "k", "f", "s">> >>
\* 
HighRiskKeywords ==
  << <<"s", "u", "d", "o">>,
     <<"r", "m">>,
     <<"d", "e", "l">>,
     <<"r", "m", "d", "i", "r">>,
     <<"c", "h", "m", "o", "d">>,
     <<"m", "v">> >>
\* 
MediumRiskKeywords ==
  << <<"g", "i", "t", " ", "r", "e", "s", "e", "t">>,
     <<"g", "i", "t", " ", "c", "l", "e", "a", "n">>,
     <<"n", "p", "m", " ", "i", "n", "s", "t", "a", "l", "l">>,
     <<"p", "i", "p", " ", "i", "n", "s", "t", "a", "l", "l">> >>

AnyKeywordIn(keywords, text) ==
  \E i \in 1..Len(keywords) : Contains(text, keywords[i])

AssessRiskLevel(pattern) ==
  LET pattern_text == Lower(pattern.pattern) IN
  IF AnyKeywordIn(CriticalKeywords, pattern_text) THEN "critical"
  ELSE IF AnyKeywordIn(HighRiskKeywords, pattern_text) THEN "high"
  ELSE IF AnyKeywordIn(MediumRiskKeywords, pattern_text) THEN "medium"
  ELSE "low"

\* _assess_command_risk: the regex lists, searched in the lowercased command.
CriticalPatterns ==
  << <<"r", "m", "\\", "s", "+", ".", "*", "-", "r", "f">>,
     <<"s", "u", "d", "o", "\\", "s", "+", "r", "m">>,
     <<"f", "o", "r", "m", "a", "t", "\\", "s", "+">>,
     <<"d", "d", "\\", "s", "+", "i", "f", "=">>,
     <<"d", "e", "l", "\\", "s", "+", ".", "*", "\\", "/", "s">>,
     <<"r", "m", "d", "i", "r", "\\", "s", "+", ".", "*", "\\", "/", "s">>,
     <<">", "\\", "s", "*", "/", "d", "e", "v", "/">>,
     <<"m", "k", "f", "s", "\\", ".">> >>
\* 
HighRiskPatterns ==
  << <<"s", "u", "d", "o", "\\", "s", "+">>,
     <<"r", "m", "\\", "s", "+">>,
     <<"d", "e", "l", "\\", "s", "+">>,
     <<"r", "m", "d", "i", "r", "\\", "s", "+">>,
     <<"c", "h", "m", "o", "d", "\\", "s", "+">>,
     <<"c", "h", "o", "w", "n", "\\", "s", "+">>,
     <<"m", "v", "\\", "s", "+", ".", "*", "\\", "s", "+", "/">>,
     <<"c", "p", "\\", "s", "+", ".", "*", ">", "\\", "s", "*", "/">> >>
\* 
MediumRiskPatterns ==
  << <<"g", "i", "t", "\\", "s", "+", "r", "e", "s", "e", "t">>,
     <<"g", "i", "t", "\\", "s", "+", "c", "l", "e", "a", "n">>,
     <<"n", "p", "m", "\\", "s", "+", "i", "n", "s", "t", "a", "l", "l">>,
     <<"p", "i", "p", "\\", "s", "+", "i", "n", "s", "t", "a", "l", "l">>,
     <<"c", "u", "r", "l", ".", "*", "\\", "|", "\\", "s", "*", "s", "h">>,
     <<"w", "g", "e", "t", ".", "*", "\\", "|", "\\", "s", "*", "s", "h">> >>

AnyPatternFound(patterns, text) ==
  \E i \in 1..Len(patterns) : ReSearch(patterns[i], text)

\* _assess_command_risk with "medium" as the answer when nothing is found.
AssessCommandRiskDefaultMedium(command) ==
  LET command_lower == Lower(command) IN
  IF AnyPatternFound(CriticalPatterns, command_lower) THEN "critical"
  ELSE IF AnyPatternFound(HighRiskPatterns, command_lower) THEN "high"
  ELSE "medium"

\* _assess_command_risk
AssessCommandRisk(command) ==
  LET command_lower == Lower(command) IN
  IF AnyPatternFound(CriticalPatterns, command_lower) THEN "critical"
  ELSE IF AnyPatternFound(HighRiskPatterns, command_lower) THEN "high"
  ELSE IF AnyPatternFound(MediumRiskPatterns, command_lower) THEN "medium"
  ELSE "low"

\* _assess_risk_level tabulated over the model's rules.
PatternRiskTable ==
  [p \in Patterns |-> AssessRiskLevel(SafetyPattern(p, FALSE))]

\* _assess_command_risk tabulated over the model's commands.
CommandRiskTable == [c \in StrippedCommands |-> AssessCommandRisk(c)]

\* _check_deny_patterns: the deny rules are split on a leading `^`, the first
\* match of each part is found and one of the two is chosen.
StartsWithCaret(p) == StartsWithChar(p.pattern, "^")
NotStartsWithCaret(p) == ~StartsWithChar(p.pattern, "^")

GlobDenies(deny) == SelectSeq(deny, NotStartsWithCaret)
RegexDenies(deny) == SelectSeq(deny, StartsWithCaret)

\* The result _check_deny_patterns builds for the chosen pattern, if any.
DeniedResult(command, chosen_pattern) ==
  IF chosen_pattern # None
  THEN Some(CommandValidation(command, DENIED, chosen_pattern,
                              PatternRiskTable[chosen_pattern[1].pattern]))
  ELSE None

CheckDenyPatterns(command, deny) ==
  DeniedResult(command,
    ChooseDenyPattern(command,
      FindMatchingPattern(command, GlobDenies(deny)),
      FindMatchingPattern(command, RegexDenies(deny))))

\* The result _check_allow_patterns builds for the first matching allow rule.
AllowedResult(command, pattern) ==
  IF pattern # None
  THEN Some(CommandValidation(command, ALLOWED, pattern, "low"))
  ELSE None

\* _check_allow_patterns: the first allow rule that matches.
CheckAllowPatterns(command, allow) ==
  AllowedResult(command, FindMatchingPattern(command, allow))

\* `if result: return result` in validate_command, else the next candidate.
OrElse(result, otherwise) == IF result # None THEN result ELSE otherwise

\* _create_approval_required_result failing open: the unmatched command is allowed.
CreateAllowedByDefaultResult(command) ==
  CommandValidation(command, ALLOWED, None, CommandRiskTable[command])

\* _create_approval_required_result
CreateApprovalRequiredResult(command) ==
  CommandValidation(command, REQUIRES_APPROVAL, None, CommandRiskTable[command])

\* validate_command with the two checks in the wrong order: allow rules first.
ValidateStrippedAllowFirst(command, allow, deny) ==
  OrElse(CheckAllowPatterns(command, allow),
    OrElse(CheckDenyPatterns(command, deny),
      Some(CreateApprovalRequiredResult(command))))[1]

\* validate_command after command.strip(): the deny rules are checked first,
\* then the allow rules, and an unmatched command requires approval.
ValidateStripped(command, allow, deny) ==
  OrElse(CheckDenyPatterns(command, deny),
    OrElse(CheckAllowPatterns(command, allow),
      Some(CreateApprovalRequiredResult(command))))[1]

\* validate_command, as a function of the raw command and the two rule lists.
ValidateResult(raw, allow, deny) == ValidateStripped(StripTable[raw], allow, deny)

\* The first of two exception names that is one.
FirstError(error, otherwise) == IF error # "none" THEN error ELSE otherwise

\* The exception that escapes _check_allow_patterns, which runs only when
\* no deny rule was chosen.
AllowError(deny_result, command, allow) ==
  IF deny_result # None THEN "none" ELSE FindMatchingError(command, allow)

\* The exception that escapes validate_command ("none" when it returns):
\* both deny partitions are scanned, then the allow rules.
ValidateErrorStripped(command, allow, deny) ==
  FirstError(FindMatchingError(command, GlobDenies(deny)),
    FirstError(FindMatchingError(command, RegexDenies(deny)),
      AllowError(CheckDenyPatterns(command, deny), command, allow)))

ValidateError(raw, allow, deny) == ValidateErrorStripped(StripTable[raw], allow, deny)

(***************************************************************************)
(* safety/approvals.py: the in-memory and the durable approval store.      *)
(***************************************************************************)
\* The commands the approval stores are exercised with (dictionary keys):
\* an ordinary command and the empty command, which is what validate_command
\* hands on for a blank command line.
StoreCommands == {Cmd_empty, Cmd_ls}

\* ApprovalScope.<member>.value
ScopeValue(scope) ==
  CASE scope = ONCE -> "once"
    [] scope = SESSION -> "session"
    [] scope = PERSISTENT -> "persistent"

\* ApprovalScope(value): the member with that value, None when the call
\* raises ValueError.
ScopeFromValue(value) ==
  IF \E m \in ApprovalScope : ScopeValue(m) = value
  THEN Some(CHOOSE m \in ApprovalScope : ScopeValue(m) = value)
  ELSE None

\* Python dict operations on a mapping kept as a function; the insertion
\* order of a dict is not modelled.
EmptyDict == [c \in {} |-> ""]
DictSet(d, k, v) == [c \in DOMAIN d \cup {k} |-> IF c = k THEN v ELSE d[c]]
DictPop(d, k) == [c \in DOMAIN d \ {k} |-> d[c]]

\* The content of the file at store_path.  kind is "absent" (no file),
\* "empty" (zero bytes), "garbage" (text json.load cannot parse), "json_other"
\* (well-formed JSON that is not an object: a list, a number, a string, null)
\* or "object" (a JSON object, data maps each key to its value, a string).
FileOf(kind, data) == [kind |-> kind, data |-> data]
AbsentFile == FileOf("absent", EmptyDict)
JsonValues == {"once", "session", "persistent", "bogus"}
JsonObjects ==
  UNION {[keys -> JsonValues] : keys \in SUBSET StoreCommands}
AnyFile ==
  {FileOf(k, EmptyDict) : k \in {"absent", "empty", "garbage", "json_other"}}
    \cup {FileOf("object", d) : d \in JsonObjects}
\* The files a durable store itself leaves behind: none, or an object whose
\* values are all "persistent".
StoreWrittenFiles ==
  {f \in AnyFile : f.kind \in {"absent", "object"}
                   /\ \A c \in DOMAIN f.data : f.data[c] = "persistent"}

\* _save without its scope filter: every record is serialised.
SavedDataUnfiltered(d) == [c \in DOMAIN d |-> ScopeValue(d[c])]

\* PersistentApprovalStore._save: only PERSISTENT records are serialised.
SavedData(d) ==
  LET keep == {c \in DOMAIN d : d[c] = PERSISTENT}
  IN [c \in keep |-> ScopeValue(d[c])]

SaveFile(d) == FileOf("object", SavedData(d))

\* PersistentApprovalStore._load: the new _approvals and the exception that
\* escapes ("none" when the call returns).  A missing file leaves _approvals
\* alone; JSONDecodeError and ValueError reset it to {}; the AttributeError
\* of data.items() on a non-object is not caught.
LoadOutcome(f, current) ==
  IF f.kind = "absent" THEN [approvals |-> current, raised |-> "none"]
  ELSE IF f.kind \in {"empty", "garbage"} THEN [approvals |-> EmptyDict, raised |-> "none"]
  ELSE IF f.kind = "json_other" THEN [approvals |-> current, raised |-> "AttributeError"]
  ELSE IF \A c \in DOMAIN f.data : ScopeFromValue(f.data[c]) # None
       THEN [approvals |-> [c \in DOMAIN f.data |-> ScopeFromValue(f.data[c])[1]],
             raised |-> "none"]
       ELSE [approvals |-> EmptyDict, raised |-> "none"]

\* The isinstance test naming the wrong store class.
IsPersistentStore(kind) == kind = "persistent"

\* isinstance(store, InMemoryApprovalStore): the durable store is a class of
\* its own, not a subclass.
IsInMemoryStore(kind) == kind = "memory"
\* isinstance(store, (InMemoryApprovalStore, PersistentApprovalStore))
IsSyncStore(kind) == kind \in {"memory", "persistent"}

\* add_approval of either store as a function: the new map and the new file.
AddOutcome(kind, d, f, command, scope) ==
  [approvals |-> DictSet(d, command, scope),
   file |-> IF kind = "persistent" /\ scope = PERSISTENT
            THEN SaveFile(DictSet(d, command, scope))
            ELSE f]

\* export_approvals: one {"command", "scope"} item per record.  The list is
\* given in a fixed order of the commands (a dict's insertion order is not
\* modelled).
ExportOrder == <<Cmd_empty, Cmd_ls>>
ExportItem(command, scope_value) == [command |-> command, scope |-> Some(scope_value)]
RECURSIVE ExportFrom(_, _)
ExportFrom(d, i) ==
  IF i > Len(ExportOrder) THEN <<>>
  ELSE IF ExportOrder[i] \in DOMAIN d
  THEN <<ExportItem(ExportOrder[i], ScopeValue(d[ExportOrder[i]]))>> \o ExportFrom(d, i + 1)
  ELSE ExportFrom(d, i + 1)
ExportedList(d) == ExportFrom(d, 1)

\* The items import_approvals is exercised with.  command is what
\* item.get("command") returns, the empty sequence standing for both a
\* missing key and the empty string (both are false in `if cmd`); scope is
\* None for a missing "scope" key.
ImportItems ==
  {[command |-> c, scope |-> v] :
     c \in StoreCommands, v \in {None} \cup {Some(j) : j \in JsonValues}}
ImportLists ==
  {ExportedList(d) : d \in UNION {[keys -> ApprovalScope] : keys \in SUBSET StoreCommands}}
    \cup {<<[command |-> Cmd_ls, scope |-> Some("bogus")]>>,
          <<[command |-> Cmd_ls, scope |-> None]>>,
          <<[command |-> Cmd_ls, scope |-> Some("bogus")],
            [command |-> Cmd_ls, scope |-> Some("persistent")]>>,
          <<[command |-> Cmd_ls, scope |-> Some("once")],
            [command |-> Cmd_ls, scope |-> Some("bogus")]>>,
          <<[command |-> Cmd_empty, scope |-> Some("bogus")],
            [command |-> Cmd_ls, scope |-> Some("persistent")]>>}

\* item.get("scope", ApprovalScope.SESSION.value)
ItemScopeValue(item) == IF item.scope = None THEN ScopeValue(SESSION) ELSE item.scope[1]

\* The body of import_approvals' loop where the ValueError of an
\* unrecognized scope makes the item be skipped.
ImportItemSkipUnrecognized(kind, state, item) ==
  IF item.command = Cmd_empty \/ ScopeFromValue(ItemScopeValue(item)) = None
  THEN state
  ELSE AddOutcome(kind, state.approvals, state.file, item.command,
                  ScopeFromValue(ItemScopeValue(item))[1])

\* The body of import_approvals' loop: an item without a command is skipped;
\* ApprovalScope(scope_val) raising ValueError makes the scope SESSION.
ImportItem(kind, state, item) ==
  IF item.command = Cmd_empty THEN state
  ELSE AddOutcome(kind, state.approvals, state.file, item.command,
                  IF ScopeFromValue(ItemScopeValue(item)) # None
                  THEN ScopeFromValue(ItemScopeValue(item))[1]
                  ELSE SESSION)

\* import_approvals: the items are added in order.
RECURSIVE ImportFrom(_, _, _, _)
ImportFrom(kind, state, data, i) ==
  IF i > Len(data) THEN state
  ELSE ImportFrom(kind, ImportItem(kind, state, data[i]), data, i + 1)
ImportedState(kind, d, f, data) ==
  ImportFrom(kind, [approvals |-> d, file |-> f], data, 1)

\* What input() does: it returns a line or raises EOFError / KeyboardInterrupt.
Line(text) == [kind |-> "line", text |-> text]
Interrupt(kind) == [kind |-> kind, text |-> <<>>]
Answers ==
  {Line(t) : t \in {<<"y">>, <<"Y">>, <<" ", "y", "e", "s", " ">>, <<"Y", "E", "S">>,
                    <<"y", "E", "s">>, <<"n">>, <<>>, <<"y", "e", "s", "s">>,
                    <<"y", " ", "e", "s">>, <<"n", "o">>}}
    \cup {Interrupt("EOFError"), Interrupt("KeyboardInterrupt")}

\* _prompt_user comparing the answer without lowercasing it.
PromptUserCaseSensitive(answer) ==
  IF answer.kind = "line"
  THEN Strip(answer.text) \in {<<"y">>, <<"y", "e", "s">>}
  ELSE FALSE

\* _prompt_user: input(...).strip().lower() in ("y", "yes"); KeyboardInterrupt
\* and EOFError are caught and answered False.
PromptUser(answer) ==
  IF answer.kind = "line"
  THEN Lower(Strip(answer.text)) \in {<<"y">>, <<"y", "e", "s">>}
  ELSE FALSE

\* _prompt_user tabulated over the model's answers.
PromptTable == [a \in Answers |-> PromptUser(a)]

\* clear_approvals followed by a _save of the emptied map.
FileAfterClearSaved(kind, f) ==
  IF kind = "persistent" THEN SaveFile(EmptyDict) ELSE f

\* clear_approvals: self._approvals.clear() and nothing else, the file at
\* store_path is not written.
FileAfterClear(kind, f) == f

\* _should_clear_approval forgetting the ONCE scope.
ShouldClearSessionOnly(scope) == scope = SESSION

\* ConsoleApprovalManager._should_clear_approval
ShouldClearApproval(scope) == scope \in {SESSION, ONCE}

(***************************************************************************)
(* safety/approvals.py: ApprovalStore, the scoped-pattern backend.         *)
(***************************************************************************)
\* The patterns and commands the scoped backend is exercised with: a pattern
\* with a star, a pattern with only a question mark, and a command spelled
\* exactly like the latter.
Pat_l_star == <<"l", "*">>
Pat_l_any == <<"l", "?">>
ScopedPatterns == {Pat_l_star, Pat_l_any}
Cmd_l_any == <<"l", "?">>
ScopedCommands == {Cmd_ls, Cmd_l_any, Cmd_rm_rf}

\* Session identifiers; the empty string is a session id Python treats as
\* false, None is the omitted argument.
SessionIds == {"s1", "s2"}
SessionIdStrings == SessionIds \cup {""}
SessionArgs == {None} \cup {Some(s) : s \in SessionIdStrings}
\* `if session_id` / `and session_id`
Truthy(session_id) == session_id # None /\ session_id[1] # ""

\* _pattern_matches: equality, or fnmatch when the pattern contains "*".
PatternMatches(command, pattern) ==
  IF pattern = command THEN TRUE
  ELSE IF Contains(pattern, <<"*">>) THEN FnMatch(command, pattern)
  ELSE FALSE

\* _pattern_matches tabulated over the model's commands and patterns.
PatternMatchTable ==
  [c \in ScopedCommands |-> [p \in ScopedPatterns |-> PatternMatches(c, p)]]

\* any(self._pattern_matches(command, pattern) for pattern in approvals)
AnyPatternMatches(command, patterns) ==
  \E i \in 1..Len(patterns) : PatternMatchTable[command][patterns[i]]

\* `command_pattern in <list>`
InList(x, list) == \E i \in 1..Len(list) : list[i] = x

\* session_approvals = {}
NoSessions == [s \in {} |-> <<>>]

\* The content of persistent.json: "absent" (no file), "garbage" (not JSON),
\* "json_other" (JSON that is not an object: a list, null, a number, a
\* string) or "object" (an object whose "approvals" is the list given).  The
\* "updated_at" timestamp is not modelled.
ScopedFile(kind, list) == [kind |-> kind, approvals |-> list]
AbsentScopedFile == ScopedFile("absent", <<>>)
ScopedFiles ==
  {ScopedFile(k, <<>>) : k \in {"absent", "garbage", "json_other", "object"}}
    \cup {ScopedFile("object", <<Pat_l_star>>)}

\* _has_persistent_approval: what _check_file returns or raises.
HasPersistentApproval(f, command) ==
  CASE f.kind = "object" ->
         [value |-> AnyPatternMatches(command, f.approvals), raised |-> "none"]
    [] f.kind = "json_other" -> [value |-> FALSE, raised |-> "AttributeError"]
    [] OTHER -> [value |-> FALSE, raised |-> "none"]

\* _has_session_approval over every session, whatever session is asked for.
HasSessionApprovalAnySession(sessions, command, session_id) ==
  \E s \in DOMAIN sessions : AnyPatternMatches(command, sessions[s])

\* _has_session_approval
HasSessionApproval(sessions, command, session_id) ==
  IF session_id \notin DOMAIN sessions THEN FALSE
  ELSE AnyPatternMatches(command, sessions[session_id])

\* _store_persistent_approval: the file _update_file leaves, or what it raises
\* before writing.
StorePersistentApproval(f, command_pattern) ==
  CASE f.kind = "object" ->
         [file |-> IF InList(command_pattern, f.approvals) THEN f
                   ELSE ScopedFile("object", Append(f.approvals, command_pattern)),
          raised |-> "none"]
    [] f.kind = "json_other" -> [file |-> f, raised |-> "TypeError"]
    [] OTHER -> [file |-> ScopedFile("object", <<command_pattern>>), raised |-> "none"]

\* _store_session_approval without the membership test: always appends.
StoreSessionApprovalAlwaysAppend(sessions, command_pattern, session_id) ==
  LET list == IF session_id \in DOMAIN sessions THEN sessions[session_id] ELSE <<>>
  IN DictSet(sessions, session_id, Append(list, command_pattern))

\* _store_session_approval
StoreSessionApproval(sessions, command_pattern, session_id) ==
  LET list == IF session_id \in DOMAIN sessions THEN sessions[session_id] ELSE <<>>
  IN DictSet(sessions, session_id,
             IF InList(command_pattern, list) THEN list
             ELSE Append(list, command_pattern))

\* cleanup_session_approvals dropping every session.
CleanupAllSessions(sessions, session_id) ==
  IF session_id \in DOMAIN sessions THEN NoSessions ELSE sessions

\* cleanup_session_approvals: del session_approvals[session_id] when present.
CleanupSession(sessions, session_id) ==
  IF session_id \in DOMAIN sessions THEN DictPop(sessions, session_id) ELSE sessions

(***************************************************************************)
(* State.                                                                  *)
(***************************************************************************)
VARIABLES
  allow_patterns,  \* SafetyPatternEngine.allow_patterns, a list of rules
  deny_patterns,   \* SafetyPatternEngine.deny_patterns, a list of rules
  validation,      \* the CommandValidation the last engine call returned, or None
  store_kind,      \* the store the manager holds: "none", "memory",
                   \* "persistent" or "scoped" (an ApprovalStore)
  approvals,       \* store._approvals: command -> ApprovalScope
  file,            \* the content of the durable store's file
  last_call,       \* the most recent call: its name and arguments
  ret,             \* what it returned: "None", "True" or "False"
  raised,          \* the exception it raised, "none" when it returned
  grants,          \* history: the add_approval calls since construction
  session_approvals,  \* ApprovalStore.session_approvals: session id -> patterns
  persistent_file,    \* the content of ApprovalStore.persistent_file
  tasks               \* the calls in flight when callers run concurrently:
                      \* caller -> its position in the call and its locals

engine_vars == <<allow_patterns, deny_patterns, validation>>
store_vars == <<store_kind, approvals, file, grants>>
call_vars == <<last_call, ret, raised>>
scoped_vars == <<session_approvals, persistent_file>>
vars == <<allow_patterns, deny_patterns, validation, store_kind, approvals,
          file, last_call, ret, raised, grants, session_approvals,
          persistent_file, tasks>>

\* No call is in flight: every operation runs to completion on its own.
NoTasks == <<>>

\* A call and its arguments; session_id and input are None for the calls
\* that take neither.
Call(op, command, scope, result) ==
  [op |-> op, command |-> command, scope |-> scope, result |-> result,
   session_id |-> None, input |-> None]
ScopedCall(op, command, scope, session_id) ==
  [Call(op, command, scope, "") EXCEPT !.session_id = session_id]
PromptCall(op, command, result, input) ==
  [Call(op, command, "", result) EXCEPT !.input = input]
NoCall == Call("", <<>>, "", "")

Bool(b) == IF b THEN "True" ELSE "False"

\* grants.recent maps each command to the scope of its latest add_approval
\* since the store was constructed; grants.only_adds is FALSE once any other
\* mutating call was made on the store.
NoGrants == [only_adds |-> TRUE, recent |-> EmptyDict]
VoidGrants == [only_adds |-> FALSE, recent |-> EmptyDict]
Granted(g, command, scope) ==
  IF g.only_adds THEN [g EXCEPT !.recent = DictSet(g.recent, command, scope)] ELSE g

(***************************************************************************)
(* SafetyPatternEngine operations.                                         *)
(***************************************************************************)
\* SafetyPatternEngine.__init__: both rule lists are empty.  No approval
\* store exists in this specification.
EngineInit ==
  /\ allow_patterns = <<>>
  /\ deny_patterns = <<>>
  /\ validation = None
  /\ session_approvals = NoSessions
  /\ persistent_file = AbsentScopedFile
  /\ tasks = NoTasks
  /\ store_kind = "none"
  /\ approvals = EmptyDict
  /\ file = AbsentFile
  /\ grants = NoGrants
  /\ last_call = NoCall
  /\ ret = "None"
  /\ raised = "none"

\* add_pattern
AddPattern(pattern) ==
  /\ Len(allow_patterns) + Len(deny_patterns) < MaxRules
  /\ IF pattern.is_allow
     THEN /\ allow_patterns' = Append(allow_patterns, pattern)
          /\ UNCHANGED deny_patterns
     ELSE /\ deny_patterns' = Append(deny_patterns, pattern)
          /\ UNCHANGED allow_patterns
  /\ validation' = None
  /\ UNCHANGED tasks
  /\ last_call' = Call("add_pattern", <<>>, "", "")
  /\ ret' = "None"
  /\ raised' = "none"
  /\ UNCHANGED <<store_vars, scoped_vars>>

\* The list without its first rule whose pattern text is pattern_text.
RemoveFirst(patterns, pattern_text) ==
  LET hits == {i \in 1..Len(patterns) : patterns[i].pattern = pattern_text}
      i == CHOOSE i \in hits : \A j \in hits : i <= j
  IN IF hits = {} THEN patterns
     ELSE SubSeq(patterns, 1, i - 1) \o SubSeq(patterns, i + 1, Len(patterns))

\* remove_pattern
RemovePattern(pattern_text, is_allow) ==
  LET patterns == IF is_allow THEN allow_patterns ELSE deny_patterns
      found == \E i \in 1..Len(patterns) : patterns[i].pattern = pattern_text
  IN /\ IF is_allow
        THEN /\ allow_patterns' = RemoveFirst(allow_patterns, pattern_text)
             /\ UNCHANGED deny_patterns
        ELSE /\ deny_patterns' = RemoveFirst(deny_patterns, pattern_text)
             /\ UNCHANGED allow_patterns
     /\ validation' = None
     /\ UNCHANGED tasks
     /\ last_call' = Call("remove_pattern", <<>>, "", "")
     /\ ret' = Bool(found)
     /\ raised' = "none"
     /\ UNCHANGED <<store_vars, scoped_vars>>

\* clear_patterns
ClearPatterns ==
  /\ allow_patterns' = <<>>
  /\ deny_patterns' = <<>>
  /\ validation' = None
  /\ UNCHANGED tasks
  /\ last_call' = Call("clear_patterns", <<>>, "", "")
  /\ ret' = "None"
  /\ raised' = "none"
  /\ UNCHANGED <<store_vars, scoped_vars>>

\* validate_command
ValidateCommand(raw) ==
  /\ raised' = ValidateError(raw, allow_patterns, deny_patterns)
  /\ validation' = IF raised' = "none"
                   THEN Some(ValidateResult(raw, allow_patterns, deny_patterns))
                   ELSE None
  /\ UNCHANGED tasks
  /\ last_call' = Call("validate_command", <<>>, "", "")
  /\ ret' = "None"
  /\ UNCHANGED <<allow_patterns, deny_patterns>>
  /\ UNCHANGED <<store_vars, scoped_vars>>

\* The rules add_pattern is exercised with; the other patterns of the model
\* come into an engine through import_patterns.
AddedPatterns ==
  {Pat_ls, Pat_rm_any, Pat_rm_rf, Pat_rm_rf_regex, Pat_star, Pat_unclosed, Pat_ls_end}
Rules == {SafetyPattern(p, a) : p \in AddedPatterns, a \in BOOLEAN}

\* The data import_patterns is exercised with: under each of the two keys a
\* list of entries, an entry being Some(its "pattern" value) or None when the
\* entry has no "pattern" key.
PatternsData(allow, deny) == [allow_patterns |-> allow, deny_patterns |-> deny]
ImportData ==
  {PatternsData(<<Some(Pat_ls)>>, <<Some(Pat_rm_any)>>),
   PatternsData(<<>>, <<Some(Pat_star), Some(Pat_ls_end)>>),
   PatternsData(<<Some(Pat_ls), None>>, <<Some(Pat_rm_any)>>),
   PatternsData(<<Some(Pat_ls)>>, <<Some(Pat_rm_any), None>>),
   PatternsData(<<None>>, <<>>),
   PatternsData(<<>>, <<Some(Pat_huge_repeat)>>),
   PatternsData(<<>>, <<Some(Pat_chown)>>),
   PatternsData(<<>>, <<Some(Pat_git_reset)>>)}

\* One loop of import_patterns: the rules appended to the (cleared) list
\* until the loop ends or pattern_data["pattern"] raises KeyError.
RECURSIVE LoadEntriesFrom(_, _, _, _)
LoadEntriesFrom(entries, is_allow, i, acc) ==
  IF i > Len(entries) THEN [patterns |-> acc, raised |-> "none"]
  ELSE IF entries[i] = None THEN [patterns |-> acc, raised |-> "KeyError"]
  ELSE LoadEntriesFrom(entries, is_allow, i + 1,
         Append(acc, SafetyPattern(entries[i][1], is_allow)))

\* The deny loop of import_patterns, which runs only when the allow loop
\* came to its end.
LoadDenyAfter(allow_loaded, entries) ==
  IF allow_loaded.raised # "none"
  THEN [patterns |-> <<>>, raised |-> allow_loaded.raised]
  ELSE LoadEntriesFrom(entries, FALSE, 1, <<>>)

\* import_patterns: clear_patterns(), then the allow loop, then the deny loop.
ImportPatterns(patterns_data) ==
  LET allow_loaded == LoadEntriesFrom(patterns_data.allow_patterns, TRUE, 1, <<>>)
      deny_loaded == LoadDenyAfter(allow_loaded, patterns_data.deny_patterns)
  IN /\ allow_patterns' = allow_loaded.patterns
     /\ deny_patterns' = deny_loaded.patterns
     /\ raised' = deny_loaded.raised
     /\ validation' = None
     /\ UNCHANGED tasks
     /\ last_call' = PromptCall("import_patterns", <<>>, "", patterns_data)
     /\ ret' = "None"
     /\ UNCHANGED <<store_vars, scoped_vars>>

EngineNext ==
  \/ \E pattern \in Rules : AddPattern(pattern)
  \/ \E p \in Patterns, a \in BOOLEAN : RemovePattern(p, a)
  \/ ClearPatterns
  \/ \E raw \in Commands : ValidateCommand(raw)
  \/ \E patterns_data \in ImportData : ImportPatterns(patterns_data)

\* The pattern engine on its own.
SpecEngine == EngineInit /\ [][EngineNext]_vars

(***************************************************************************)
(* Approval store and ConsoleApprovalManager operations.                   *)
(***************************************************************************)
\* No store has been constructed yet and the file may hold anything; the
\* engine is idle in this specification.
StoreInit ==
  /\ store_kind = "none"
  /\ approvals = EmptyDict
  /\ file \in AnyFile
  /\ grants = NoGrants
  /\ last_call = NoCall
  /\ ret = "None"
  /\ raised = "none"
  /\ allow_patterns = <<>>
  /\ deny_patterns = <<>>
  /\ validation = None
  /\ session_approvals = NoSessions
  /\ persistent_file = AbsentScopedFile
  /\ tasks = NoTasks

\* The same, when the file is missing or was left behind by a durable store.
DurableInit ==
  /\ store_kind = "none"
  /\ approvals = EmptyDict
  /\ file \in StoreWrittenFiles
  /\ grants = NoGrants
  /\ last_call = NoCall
  /\ ret = "None"
  /\ raised = "none"
  /\ allow_patterns = <<>>
  /\ deny_patterns = <<>>
  /\ validation = None
  /\ session_approvals = NoSessions
  /\ persistent_file = AbsentScopedFile
  /\ tasks = NoTasks

\* InMemoryApprovalStore.__init__ (and the manager constructed around it)
NewInMemoryStore ==
  /\ store_kind' = "memory"
  /\ approvals' = EmptyDict
  /\ grants' = NoGrants
  /\ UNCHANGED tasks
  /\ last_call' = Call("InMemoryApprovalStore", <<>>, "", "")
  /\ ret' = "None"
  /\ raised' = "none"
  /\ UNCHANGED file
  /\ session_approvals' = NoSessions
  /\ UNCHANGED <<engine_vars, persistent_file>>

\* PersistentApprovalStore.__init__ (and the manager constructed around it):
\* _approvals = {} and then _load(); when _load raises there is no store.
NewPersistentStore ==
  LET loaded == LoadOutcome(file, EmptyDict) IN
  /\ store_kind' = IF loaded.raised = "none" THEN "persistent" ELSE "none"
  /\ approvals' = IF loaded.raised = "none" THEN loaded.approvals ELSE EmptyDict
  /\ grants' = NoGrants
  /\ UNCHANGED tasks
  /\ last_call' = Call("PersistentApprovalStore", <<>>, "", "")
  /\ ret' = "None"
  /\ raised' = loaded.raised
  /\ UNCHANGED file
  /\ session_approvals' = NoSessions
  /\ UNCHANGED <<engine_vars, persistent_file>>

\* add_approval of either store: the durable one saves after a PERSISTENT add.
StoreAdd(command, scope) ==
  /\ approvals' = DictSet(approvals, command, scope)
  /\ file' = IF store_kind = "persistent" /\ scope = PERSISTENT
             THEN SaveFile(approvals')
             ELSE file

\* remove_approval of either store: the durable one saves after every remove.
StoreRemove(command) ==
  /\ approvals' = DictPop(approvals, command)
  /\ file' = IF store_kind = "persistent" THEN SaveFile(approvals') ELSE file

\* store.add_approval(command, scope)
AddApproval(command, scope) ==
  /\ IsSyncStore(store_kind)
  /\ StoreAdd(command, scope)
  /\ grants' = Granted(grants, command, scope)
  /\ UNCHANGED tasks
  /\ last_call' = Call("add_approval", command, scope, "")
  /\ ret' = "None"
  /\ raised' = "none"
  /\ UNCHANGED store_kind
  /\ UNCHANGED <<engine_vars, scoped_vars>>

\* store.has_approval(command)
HasApproval(command) ==
  /\ IsSyncStore(store_kind)
  /\ UNCHANGED tasks
  /\ last_call' = Call("has_approval", command, "", "")
  /\ ret' = Bool(command \in DOMAIN approvals)
  /\ raised' = "none"
  /\ UNCHANGED store_vars
  /\ UNCHANGED <<engine_vars, scoped_vars>>

\* store.remove_approval(command)
RemoveApproval(command) ==
  /\ IsSyncStore(store_kind)
  /\ StoreRemove(command)
  /\ grants' = VoidGrants
  /\ UNCHANGED tasks
  /\ last_call' = Call("remove_approval", command, "", "")
  /\ ret' = "None"
  /\ raised' = "none"
  /\ UNCHANGED store_kind
  /\ UNCHANGED <<engine_vars, scoped_vars>>

\* store.clear_approvals(): the map is emptied, the file is left alone.
ClearApprovals ==
  /\ IsSyncStore(store_kind)
  /\ approvals' = EmptyDict
  /\ file' = FileAfterClear(store_kind, file)
  /\ grants' = VoidGrants
  /\ UNCHANGED tasks
  /\ last_call' = Call("clear_approvals", <<>>, "", "")
  /\ ret' = "None"
  /\ raised' = "none"
  /\ UNCHANGED store_kind
  /\ UNCHANGED <<engine_vars, scoped_vars>>

\* PersistentApprovalStore.save()
Save ==
  /\ store_kind = "persistent"
  /\ file' = SaveFile(approvals)
  /\ grants' = VoidGrants
  /\ UNCHANGED tasks
  /\ last_call' = Call("save", <<>>, "", "")
  /\ ret' = "None"
  /\ raised' = "none"
  /\ UNCHANGED <<store_kind, approvals>>
  /\ UNCHANGED <<engine_vars, scoped_vars>>

\* PersistentApprovalStore.load()
Load ==
  LET loaded == LoadOutcome(file, approvals) IN
  /\ store_kind = "persistent"
  /\ approvals' = loaded.approvals
  /\ grants' = VoidGrants
  /\ UNCHANGED tasks
  /\ last_call' = Call("load", <<>>, "", "")
  /\ ret' = "None"
  /\ raised' = loaded.raised
  /\ UNCHANGED <<store_kind, file>>
  /\ UNCHANGED <<engine_vars, scoped_vars>>

\* ConsoleApprovalManager.check_approval(validation): a ONCE record is
\* removed only when the store is an InMemoryApprovalStore.
\* The scope test of check_approval widened to SESSION records.
IsOnceOrSessionScope(scope) == scope \in {ONCE, SESSION}

\* `scope == ApprovalScope.ONCE` in check_approval
IsOnceScope(scope) == scope = ONCE

CheckApproval(v) ==
  LET has == v.command \in DOMAIN approvals
      consume == has /\ IsOnceScope(approvals[v.command]) /\ IsInMemoryStore(store_kind)
  IN /\ IsSyncStore(store_kind)
     /\ IF consume
        THEN StoreRemove(v.command)
        ELSE UNCHANGED <<approvals, file>>
     /\ grants' = IF consume THEN VoidGrants ELSE grants
     /\ UNCHANGED tasks
     /\ last_call' = Call("check_approval", v.command, "", v.result)
     /\ ret' = Bool(has)
     /\ raised' = "none"
     /\ UNCHANGED store_kind
     /\ UNCHANGED <<engine_vars, scoped_vars>>

\* ConsoleApprovalManager.handle_approval_request(validation, scope)
HandleApprovalRequest(v, scope) ==
  /\ IsSyncStore(store_kind)
  /\ StoreAdd(v.command, scope)
  /\ grants' = Granted(grants, v.command, scope)
  /\ UNCHANGED tasks
  /\ last_call' = Call("handle_approval_request", v.command, scope, v.result)
  /\ ret' = "True"
  /\ raised' = "none"
  /\ UNCHANGED store_kind
  /\ UNCHANGED <<engine_vars, scoped_vars>>

\* ConsoleApprovalManager.clear_session_approvals(): every SESSION and ONCE
\* record is removed one by one, only when the store is an
\* InMemoryApprovalStore.
ClearSessionApprovals ==
  LET removed == {c \in DOMAIN approvals :
                    ShouldClearApproval(approvals[c]) /\ IsInMemoryStore(store_kind)}
  IN /\ IsSyncStore(store_kind)
     /\ approvals' = [c \in DOMAIN approvals \ removed |-> approvals[c]]
     /\ grants' = IF removed = {} THEN grants ELSE VoidGrants
     /\ UNCHANGED tasks
     /\ last_call' = Call("clear_session_approvals", <<>>, "", "")
     /\ ret' = "None"
     /\ raised' = "none"
     /\ UNCHANGED <<store_kind, file>>
     /\ UNCHANGED <<engine_vars, scoped_vars>>

\* ConsoleApprovalManager.export_approvals(): returns the list of records.
ExportApprovals ==
  /\ IsSyncStore(store_kind)
  /\ UNCHANGED tasks
  /\ last_call' = Call("export_approvals", <<>>, "", "")
  /\ ret' = ExportedList(approvals)
  /\ raised' = "none"
  /\ UNCHANGED store_vars
  /\ UNCHANGED <<engine_vars, scoped_vars>>

\* ConsoleApprovalManager.import_approvals(data)
ImportApprovals(data) ==
  LET imported == ImportedState(store_kind, approvals, file, data) IN
  /\ IsSyncStore(store_kind)
  /\ approvals' = imported.approvals
  /\ file' = imported.file
  /\ grants' = VoidGrants
  /\ UNCHANGED tasks
  /\ last_call' = PromptCall("import_approvals", <<>>, "", data)
  /\ ret' = "None"
  /\ raised' = "none"
  /\ UNCHANGED store_kind
  /\ UNCHANGED <<engine_vars, scoped_vars>>

\* ConsoleApprovalManager.request_approval(validation) with the default
\* _prompt_user; answer is what input() does.
RequestApproval(v, answer) ==
  /\ IsSyncStore(store_kind)
  /\ UNCHANGED tasks
  /\ last_call' = PromptCall("request_approval", v.command, v.result, answer)
  /\ ret' = Bool(PromptTable[answer])
  /\ raised' = "none"
  /\ UNCHANGED store_vars
  /\ UNCHANGED <<engine_vars, scoped_vars>>

\* The validations a caller hands to the manager.
Validations ==
  {CommandValidation(c, r, None, "low") :
     c \in StoreCommands, r \in {ALLOWED, DENIED, REQUIRES_APPROVAL}}

\* The validation an approval is requested for.
PromptedValidations ==
  {CommandValidation(Cmd_ls, REQUIRES_APPROVAL, None, "low")}

ApprovalsNext ==
  \/ NewInMemoryStore
  \/ NewPersistentStore
  \/ \E c \in StoreCommands, scope \in ApprovalScope : AddApproval(c, scope)
  \/ \E c \in StoreCommands : HasApproval(c)
  \/ \E c \in StoreCommands : RemoveApproval(c)
  \/ ClearApprovals
  \/ Save
  \/ Load
  \/ \E v \in Validations : CheckApproval(v)
  \/ \E v \in Validations, scope \in ApprovalScope : HandleApprovalRequest(v, scope)
  \/ ClearSessionApprovals
  \/ ExportApprovals
  \/ \E data \in ImportLists : ImportApprovals(data)
  \/ \E v \in PromptedValidations, answer \in Answers : RequestApproval(v, answer)

\* What a _save that raises OSError can leave at store_path: the file as it
\* was when open(path, "w") fails, a truncated file or a partial text when a
\* write fails after the file was opened.
FailedSaveFiles(f) ==
  {f, FileOf("empty", EmptyDict), FileOf("garbage", EmptyDict)}

\* PersistentApprovalStore.add_approval(command, PERSISTENT) when _save
\* raises OSError: the record was assigned before _save was called.
AddApprovalWriteFails(command, left) ==
  /\ store_kind = "persistent"
  /\ left \in FailedSaveFiles(file)
  /\ approvals' = DictSet(approvals, command, PERSISTENT)
  /\ file' = left
  /\ grants' = VoidGrants
  /\ UNCHANGED tasks
  /\ last_call' = Call("add_approval", command, PERSISTENT, "")
  /\ ret' = "None"
  /\ raised' = "OSError"
  /\ UNCHANGED store_kind
  /\ UNCHANGED <<engine_vars, scoped_vars>>

FaultsNext ==
  \/ NewPersistentStore
  \/ \E c \in StoreCommands, scope \in ApprovalScope : AddApproval(c, scope)
  \/ \E c \in StoreCommands, left \in AnyFile : AddApprovalWriteFails(c, left)
  \/ \E c \in StoreCommands : HasApproval(c)
  \/ \E c \in StoreCommands : RemoveApproval(c)
  \/ ClearApprovals
  \/ \E v \in Validations : CheckApproval(v)

\* The durable store on a file system whose writes can fail.
SpecFaults == DurableInit /\ [][FaultsNext]_vars

\* The stores and the manager, over any initial content of the file.
SpecApprovals == StoreInit /\ [][ApprovalsNext]_vars

\* The durable store started on a missing or store-written file.
SpecDurable == DurableInit /\ [][ApprovalsNext]_vars

(***************************************************************************)
(* ApprovalStore operations (the async API, each call run to completion).  *)
(***************************************************************************)
\* No store has been constructed yet; persistent.json may hold anything.
StoresInit ==
  /\ store_kind = "none"
  /\ approvals = EmptyDict
  /\ file = AbsentFile
  /\ grants = NoGrants
  /\ session_approvals = NoSessions
  /\ persistent_file \in ScopedFiles
  /\ tasks = NoTasks
  /\ last_call = NoCall
  /\ ret = "None"
  /\ raised = "none"
  /\ allow_patterns = <<>>
  /\ deny_patterns = <<>>
  /\ validation = None

\* ApprovalStore.__init__ (and the manager constructed around it)
NewApprovalStore ==
  /\ store_kind' = "scoped"
  /\ session_approvals' = NoSessions
  /\ approvals' = EmptyDict
  /\ grants' = NoGrants
  /\ UNCHANGED tasks
  /\ last_call' = Call("ApprovalStore", <<>>, "", "")
  /\ ret' = "None"
  /\ raised' = "none"
  /\ UNCHANGED <<engine_vars, file, persistent_file>>

\* store_approval(command_pattern, scope, session_id)
StoreApproval(command_pattern, scope, session_id) ==
  LET stored == StorePersistentApproval(persistent_file, command_pattern) IN
  /\ store_kind = "scoped"
  /\ IF scope = PERSISTENT
     THEN /\ persistent_file' = stored.file
          /\ raised' = stored.raised
          /\ UNCHANGED session_approvals
     ELSE IF scope = SESSION /\ Truthy(session_id)
     THEN /\ session_approvals' =
               StoreSessionApproval(session_approvals, command_pattern, session_id[1])
          /\ raised' = "none"
          /\ UNCHANGED persistent_file
     ELSE /\ raised' = "none"
          /\ UNCHANGED scoped_vars
  /\ UNCHANGED tasks
  /\ last_call' = ScopedCall("store_approval", command_pattern, scope, session_id)
  /\ ret' = "None"
  /\ UNCHANGED <<engine_vars, store_vars>>

\* has_approval(command, session_id): the persistent patterns first, then
\* the patterns of the session asked for.
HasStoredApproval(command, session_id) ==
  LET persistent == HasPersistentApproval(persistent_file, command) IN
  /\ store_kind = "scoped"
  /\ UNCHANGED tasks
  /\ last_call' = ScopedCall("has_approval", command, "", session_id)
  /\ raised' = persistent.raised
  /\ ret' = IF persistent.raised # "none" THEN "None"
            ELSE IF persistent.value THEN "True"
            ELSE IF Truthy(session_id)
                    /\ HasSessionApproval(session_approvals, command, session_id[1])
            THEN "True"
            ELSE "False"
  /\ UNCHANGED <<engine_vars, store_vars, scoped_vars>>

\* cleanup_session_approvals(session_id)
CleanupSessionApprovals(session_id) ==
  /\ store_kind = "scoped"
  /\ session_approvals' = CleanupSession(session_approvals, session_id)
  /\ UNCHANGED tasks
  /\ last_call' = ScopedCall("cleanup_session_approvals", <<>>, "", Some(session_id))
  /\ ret' = "None"
  /\ raised' = "none"
  /\ UNCHANGED <<engine_vars, store_vars, persistent_file>>

ScopedNext ==
  \/ NewApprovalStore
  \/ \E p \in ScopedPatterns, scope \in ApprovalScope, sid \in SessionArgs :
       StoreApproval(p, scope, sid)
  \/ \E c \in ScopedCommands, sid \in SessionArgs : HasStoredApproval(c, sid)
  \/ \E s \in SessionIdStrings : CleanupSessionApprovals(s)

\* The operations of the three store classes themselves.
StoresNext ==
  \/ NewInMemoryStore
  \/ NewPersistentStore
  \/ \E c \in StoreCommands, scope \in ApprovalScope : AddApproval(c, scope)
  \/ \E c \in StoreCommands : HasApproval(c)
  \/ \E c \in StoreCommands : RemoveApproval(c)
  \/ ClearApprovals
  \/ Save
  \/ Load
  \/ ScopedNext

\* The three stores, one held at a time.
SpecStores == StoresInit /\ [][StoresNext]_vars

(***************************************************************************)
(* Concurrent callers.  Nothing in safety/approvals.py takes a lock, so a   *)
(* call made by one caller can be interleaved with another caller's between *)
(* any two of its accesses to the shared dictionary or file.  tasks maps    *)
(* each caller to the statement it executes next (pc) and to its locals.    *)
(***************************************************************************)
Callers == {1, 2}

\* The records an in-memory store can hold after some add_approval calls.
InMemoryContents ==
  UNION {[keys -> ApprovalScope] : keys \in SUBSET StoreCommands}

\* A caller of check_approval: the command checked, the local `has`, what
\* the call returned, and (history) whether the store held a Once record
\* for the command when the call began.
CheckTask(pc, command, has, result, held_once) ==
  [pc |-> pc, command |-> command, has |-> has, ret |-> result,
   held_once |-> held_once]
IdleCheckTask == CheckTask("idle", <<>>, FALSE, "None", FALSE)

\* Two threads share a manager over an in-memory store with some records.
RacingChecksInit ==
  /\ store_kind = "memory"
  /\ approvals \in InMemoryContents
  /\ tasks = [t \in Callers |-> IdleCheckTask]
  /\ file = AbsentFile
  /\ grants = VoidGrants
  /\ last_call = NoCall
  /\ ret = "None"
  /\ raised = "none"
  /\ allow_patterns = <<>>
  /\ deny_patterns = <<>>
  /\ validation = None
  /\ session_approvals = NoSessions
  /\ persistent_file = AbsentScopedFile

\* check_approval, its first statement: has = store.has_approval(command);
\* when has is false the call returns it.
CheckHasApproval(t, v) ==
  LET has == v.command \in DOMAIN approvals IN
  /\ tasks[t].pc = "idle"
  /\ tasks' = [tasks EXCEPT ![t] =
                 CheckTask(IF has THEN "get_all_approvals" ELSE "done",
                           v.command, has, IF has THEN "None" ELSE "False",
                           has /\ approvals[v.command] = ONCE)]
  /\ UNCHANGED <<engine_vars, store_vars, call_vars, scoped_vars>>

\* check_approval: scope = dict(store.get_all_approvals()).get(command); the
\* call goes on to remove_approval for a ONCE record of the in-memory store
\* and returns has otherwise.
CheckGetAllApprovals(t) ==
  LET command == tasks[t].command
      consume == /\ command \in DOMAIN approvals
                 /\ IsOnceScope(approvals[command])
                 /\ IsInMemoryStore(store_kind)
  IN /\ tasks[t].pc = "get_all_approvals"
     /\ tasks' = [tasks EXCEPT ![t].pc = IF consume THEN "remove_approval" ELSE "done",
                               ![t].ret = IF consume THEN "None" ELSE Bool(tasks[t].has)]
     /\ UNCHANGED <<engine_vars, store_vars, call_vars, scoped_vars>>

\* check_approval: store.remove_approval(command), then `return has`.
CheckRemoveApproval(t) ==
  /\ tasks[t].pc = "remove_approval"
  /\ approvals' = DictPop(approvals, tasks[t].command)
  /\ tasks' = [tasks EXCEPT ![t].pc = "done", ![t].ret = Bool(tasks[t].has)]
  /\ UNCHANGED <<engine_vars, store_kind, file, grants, call_vars, scoped_vars>>

RacingChecksNext ==
  \/ \E t \in Callers, v \in Validations : CheckHasApproval(t, v)
  \/ \E t \in Callers : CheckGetAllApprovals(t)
  \/ \E t \in Callers : CheckRemoveApproval(t)

\* Two callers, each making one check_approval call on the same manager.
SpecRacingChecks == RacingChecksInit /\ [][RacingChecksNext]_vars

(***************************************************************************)
(* Two PersistentApprovalStore instances (two processes) on one store_path. *)
(* Each has its own _approvals; the file is shared.  _save is              *)
(* `with open(path, "w") as f: json.dump(data, f, indent=2)`: opening      *)
(* truncates the file, and the text is written at offset 0 of the          *)
(* instance's own file descriptor when the buffer is flushed.              *)
(***************************************************************************)
\* len() of the text json.dump(data, f, indent=2) writes: "{}" for an empty
\* object, else one line `  "<command>": "persistent"` per record between
\* "{\n" and "\n}", the lines joined by ",\n".
RECURSIVE RecordLines(_, _)
RecordLines(data, keys) ==
  IF keys = {} THEN 0
  ELSE LET c == CHOOSE k \in keys : TRUE
       IN Len(c) + 20 + RecordLines(data, keys \ {c})

TextLength(data) ==
  IF DOMAIN data = {} THEN 2 ELSE 2 + RecordLines(data, DOMAIN data)

\* The number of characters in the file.  A torn file (see WrittenOver) keeps
\* in data the object whose text its length comes from.
FileLength(f) ==
  IF f.kind \in {"object", "garbage"} THEN TextLength(f.data) ELSE 0

\* The file after the text of data is written at offset 0: the text itself
\* when it covers what the file holds; otherwise the text followed by the
\* tail of the longer text that was there, which json.load rejects.
WrittenOver(f, data) ==
  IF FileLength(f) > TextLength(data)
  THEN FileOf("garbage", f.data)
  ELSE FileOf("object", data)

\* An instance: the statement it executes next, its _approvals, and
\* (history) whether the latest write to the file was its own.
WriterTask(pc, d, last) == [pc |-> pc, approvals |-> d, last |-> last]

\* No instance exists yet; the file is missing or was left by a store.
TwoWritersInit ==
  /\ store_kind = "persistent"
  /\ approvals = EmptyDict
  /\ file \in StoreWrittenFiles
  /\ tasks = [t \in Callers |-> WriterTask("new", EmptyDict, FALSE)]
  /\ grants = VoidGrants
  /\ last_call = NoCall
  /\ ret = "None"
  /\ raised = "none"
  /\ allow_patterns = <<>>
  /\ deny_patterns = <<>>
  /\ validation = None
  /\ session_approvals = NoSessions
  /\ persistent_file = AbsentScopedFile

\* PersistentApprovalStore.__init__ in process t: _load reads the file.
InstanceNew(t) ==
  /\ tasks[t].pc = "new"
  /\ LoadOutcome(file, EmptyDict).raised = "none"
  /\ tasks' = [tasks EXCEPT ![t].pc = "idle",
                            ![t].approvals = LoadOutcome(file, EmptyDict).approvals]
  /\ UNCHANGED <<engine_vars, store_vars, call_vars, scoped_vars>>

\* add_approval(command, PERSISTENT) in process t, up to the call of _save.
InstanceAdd(t, command) ==
  /\ tasks[t].pc = "idle"
  /\ tasks' = [tasks EXCEPT ![t].pc = "open",
                            ![t].approvals = DictSet(tasks[t].approvals, command, PERSISTENT)]
  /\ UNCHANGED <<engine_vars, store_vars, call_vars, scoped_vars>>

\* remove_approval(command) in process t, up to the call of _save.
InstanceRemove(t, command) ==
  /\ tasks[t].pc = "idle"
  /\ tasks' = [tasks EXCEPT ![t].pc = "open",
                            ![t].approvals = DictPop(tasks[t].approvals, command)]
  /\ UNCHANGED <<engine_vars, store_vars, call_vars, scoped_vars>>

\* _save in process t: open(self.store_path, "w") truncates the file.
InstanceSaveOpen(t) ==
  /\ tasks[t].pc = "open"
  /\ file' = FileOf("empty", EmptyDict)
  /\ tasks' = [tasks EXCEPT ![t].pc = "write"]
  /\ UNCHANGED <<engine_vars, store_kind, approvals, grants, call_vars, scoped_vars>>

\* _save in process t: json.dump and the close of the file write the text.
InstanceSaveWrite(t) ==
  /\ tasks[t].pc = "write"
  /\ file' = WrittenOver(file, SavedData(tasks[t].approvals))
  /\ tasks' = [u \in Callers |->
                 IF u = t THEN WriterTask("idle", tasks[t].approvals, TRUE)
                 ELSE [tasks[u] EXCEPT !.last = FALSE]]
  /\ UNCHANGED <<engine_vars, store_kind, approvals, grants, call_vars, scoped_vars>>

TwoWritersNext ==
  \/ \E t \in Callers : InstanceNew(t)
  \/ \E t \in Callers, c \in StoreCommands : InstanceAdd(t, c)
  \/ \E t \in Callers, c \in StoreCommands : InstanceRemove(t, c)
  \/ \E t \in Callers : InstanceSaveOpen(t)
  \/ \E t \in Callers : InstanceSaveWrite(t)

\* Two processes, each with a durable store on the same path.
SpecTwoWriters == TwoWritersInit /\ [][TwoWritersNext]_vars

(***************************************************************************)
(* Two store_approval(pattern, PERSISTENT) calls on one ApprovalStore.     *)
(* Each awaits run_in_executor(None, _update_file), so the two             *)
(* _update_file bodies run on worker threads of the default pool and their *)
(* file accesses interleave.                                               *)
(***************************************************************************)
\* len() of the "approvals" list in the text json.dump(data, f, indent=2)
\* writes: "[]" when empty, else one line `    "<pattern>"` per pattern.
\* The rest of the text has the same length in every write.
RECURSIVE PatternLines(_, _)
PatternLines(list, i) ==
  IF i > Len(list) THEN 0 ELSE Len(list[i]) + 8 + PatternLines(list, i + 1)

ListTextLength(list) == IF Len(list) = 0 THEN 2 ELSE 4 + PatternLines(list, 1)

\* The length of persistent.json, up to that constant.  A torn file keeps in
\* approvals the list whose text its length comes from.
ScopedFileLength(f) ==
  IF f.kind \in {"object", "garbage"} THEN ListTextLength(f.approvals) ELSE 0

\* persistent.json after the text of the list is written at offset 0.
ScopedWrittenOver(f, list) ==
  IF ScopedFileLength(f) > ListTextLength(list)
  THEN ScopedFile("garbage", f.approvals)
  ELSE ScopedFile("object", list)

\* A _update_file in flight: the statement it executes next, its
\* command_pattern, its local data["approvals"] and the exception it raised.
UpdateTask(pc, pattern, list, exception) ==
  [pc |-> pc, pattern |-> pattern, approvals |-> list, raised |-> exception]

\* An ApprovalStore over any persistent.json, and no call made yet.
ConcurrentStoresInit ==
  /\ store_kind = "scoped"
  /\ session_approvals = NoSessions
  /\ persistent_file \in ScopedFiles
  /\ tasks = [t \in Callers |-> UpdateTask("idle", <<>>, <<>>, "none")]
  /\ approvals = EmptyDict
  /\ file = AbsentFile
  /\ grants = NoGrants
  /\ last_call = NoCall
  /\ ret = "None"
  /\ raised = "none"
  /\ allow_patterns = <<>>
  /\ deny_patterns = <<>>
  /\ validation = None

\* store_approval(command_pattern, PERSISTENT) down to _update_file's read:
\* the file is loaded (or the default taken) and the pattern appended to the
\* local list if it is not in it.
UpdateRead(t, command_pattern) ==
  LET stored == StorePersistentApproval(persistent_file, command_pattern) IN
  /\ tasks[t].pc = "idle"
  /\ tasks' = [tasks EXCEPT ![t] =
                 IF stored.raised # "none"
                 THEN UpdateTask("done", command_pattern, <<>>, stored.raised)
                 ELSE UpdateTask("open", command_pattern, stored.file.approvals, "none")]
  /\ UNCHANGED <<engine_vars, store_vars, call_vars, scoped_vars>>

\* _update_file: open(self.persistent_file, "w") truncates the file.
UpdateOpen(t) ==
  /\ tasks[t].pc = "open"
  /\ persistent_file' = ScopedFile("empty", <<>>)
  /\ tasks' = [tasks EXCEPT ![t].pc = "write"]
  /\ UNCHANGED <<engine_vars, store_vars, call_vars, session_approvals>>

\* _update_file: json.dump and the close of the file write the text; the
\* awaiting store_approval call then returns.
UpdateWrite(t) ==
  /\ tasks[t].pc = "write"
  /\ persistent_file' = ScopedWrittenOver(persistent_file, tasks[t].approvals)
  /\ tasks' = [tasks EXCEPT ![t].pc = "done"]
  /\ UNCHANGED <<engine_vars, store_vars, call_vars, session_approvals>>

ConcurrentStoresNext ==
  \/ \E t \in Callers, p \in ScopedPatterns : UpdateRead(t, p)
  \/ \E t \in Callers : UpdateOpen(t)
  \/ \E t \in Callers : UpdateWrite(t)

\* Two concurrent store_approval calls with scope PERSISTENT on one store.
SpecConcurrentStores == ConcurrentStoresInit /\ [][ConcurrentStoresNext]_vars

(***************************************************************************)
(* Properties of the pattern engine (checked under SpecEngine).            *)
(***************************************************************************)
SomeDenyMatches(command) ==
  \E i \in 1..Len(deny_patterns) : MatchesPattern(command, deny_patterns[i].pattern)
SomeAllowMatches(command) ==
  \E i \in 1..Len(allow_patterns) : MatchesPattern(command, allow_patterns[i].pattern)
IsDenyRule(rule) ==
  /\ ~rule.is_allow
  /\ \E i \in 1..Len(deny_patterns) : deny_patterns[i] = rule

\* C1: whenever at least one deny rule matches the trimmed command, the
\* validation returned is Denied and its matched rule is a deny rule, whatever
\* allow rules also match and in whatever order the rules were added.
C1_DenyTakesPrecedence ==
  validation # None =>
    LET v == validation[1] IN
    SomeDenyMatches(v.command) =>
      /\ v.result = DENIED
      /\ v.matched_pattern # None
      /\ IsDenyRule(v.matched_pattern[1])

\* A command was denied although an allow rule matches it too.
C1_Witness ==
  /\ validation # None
  /\ validation[1].result = DENIED
  /\ SomeAllowMatches(validation[1].command)
  /\ SomeDenyMatches(validation[1].command)

\* C2: a command that no allow rule and no deny rule matches is answered
\* RequiresApproval with no matched rule, never Allowed or Denied.
C2_NoMatchRequiresApproval ==
  validation # None =>
    LET v == validation[1] IN
    (~SomeDenyMatches(v.command) /\ ~SomeAllowMatches(v.command)) =>
      /\ v.result = REQUIRES_APPROVAL
      /\ v.matched_pattern = None

\* A command went unmatched through a non-empty allow list and deny list.
C2_Witness ==
  /\ validation # None
  /\ validation[1].result = REQUIRES_APPROVAL
  /\ ~SomeDenyMatches(validation[1].command)
  /\ ~SomeAllowMatches(validation[1].command)
  /\ allow_patterns # <<>>
  /\ deny_patterns # <<>>

\* The trimmed form of an empty or whitespace-only command.
EmptyCommand == <<>>
SomeRuleMatches(command) == SomeDenyMatches(command) \/ SomeAllowMatches(command)

\* C19 as stated: for every rule set, an empty or whitespace-only command is
\* answered RequiresApproval with risk Low and no matched rule.
C19_EmptyCommandAlwaysRequiresApproval ==
  (validation # None /\ validation[1].command = EmptyCommand) =>
    /\ validation[1].result = REQUIRES_APPROVAL
    /\ validation[1].risk_level = "low"
    /\ validation[1].matched_pattern = None

\* C19 amended: an empty or whitespace-only command goes through the normal
\* pipeline on its trimmed form, the empty string: when no rule matches the
\* empty string it is answered RequiresApproval with risk Low and no matched
\* rule, and when a rule matches the empty string the verdict is that rule's.
C19_EmptyCommandNormalPipeline ==
  (validation # None /\ validation[1].command = EmptyCommand) =>
    LET v == validation[1] IN
    IF SomeRuleMatches(EmptyCommand)
    THEN /\ v.result \in {ALLOWED, DENIED}
         /\ v.matched_pattern # None
         /\ MatchesPattern(EmptyCommand, v.matched_pattern[1].pattern)
    ELSE /\ v.result = REQUIRES_APPROVAL
         /\ v.risk_level = "low"
         /\ v.matched_pattern = None

\* An empty command went unmatched through a non-empty rule set.
C19_Witness ==
  /\ validation # None
  /\ validation[1].command = EmptyCommand
  /\ validation[1].result = REQUIRES_APPROVAL
  /\ validation[1].risk_level = "low"
  /\ Len(allow_patterns) + Len(deny_patterns) > 0

\* The first deny rule of a partition that matches the command (0: none);
\* the regex partition holds the rules whose text starts with "^".
InRegexPartition(rule) == Len(rule.pattern) > 0 /\ rule.pattern[1] = "^"
DenyHits(command, regex) ==
  {i \in 1..Len(deny_patterns) :
     /\ InRegexPartition(deny_patterns[i]) = regex
     /\ MatchesPattern(command, deny_patterns[i].pattern)}
FirstDenyHit(command, regex) ==
  LET hits == DenyHits(command, regex) IN
  IF hits = {} THEN 0 ELSE CHOOSE i \in hits : \A j \in hits : i <= j

\* C20: when both partitions have a matching deny rule, the matched rule
\* reported is the first regex match if the command contains "--" and the
\* first glob match otherwise; when only one partition has a match, that
\* match is reported.
C20_DenyTieBreak ==
  validation # None =>
    LET v == validation[1]
        g == FirstDenyHit(v.command, FALSE)
        r == FirstDenyHit(v.command, TRUE)
    IN (g > 0 \/ r > 0) =>
         /\ v.matched_pattern # None
         /\ v.matched_pattern[1] =
              deny_patterns[IF g > 0 /\ r > 0
                            THEN IF Contains(v.command, <<"-", "-">>) THEN r ELSE g
                            ELSE IF g > 0 THEN g ELSE r]

\* Both partitions matched a command with a long option and the regex rule
\* was reported.
C20_Witness ==
  /\ validation # None
  /\ FirstDenyHit(validation[1].command, FALSE) > 0
  /\ FirstDenyHit(validation[1].command, TRUE) > 0
  /\ Contains(validation[1].command, <<"-", "-">>)
  /\ validation[1].matched_pattern # None
  /\ InRegexPartition(validation[1].matched_pattern[1])

(***************************************************************************)
(* Properties of the approval stores and the manager.                      *)
(***************************************************************************)
\* The step is a call of op (every operation records itself in last_call).
Called(op) == last_call'.op = op
HoldsOnce(command) == command \in DOMAIN approvals /\ approvals[command] = ONCE
PersistentOnly(d) == [c \in {k \in DOMAIN d : d[k] = PERSISTENT} |-> d[c]]

\* C3: on the in-memory store a check of a command held at scope Once
\* returns true and removes the record in the same call, and a check of a
\* command the store does not hold returns false: the check right after the
\* consuming one is refused.
C3_OnceConsumedInMemory ==
  [][ /\ (Called("check_approval") /\ store_kind = "memory"
            /\ HoldsOnce(last_call'.command))
         => (ret' = "True" /\ last_call'.command \notin DOMAIN approvals')
      /\ (Called("check_approval") /\ store_kind = "memory"
            /\ last_call'.command \notin DOMAIN approvals)
         => ret' = "False"
    ]_vars

\* A check on the in-memory store returned true and left no record behind.
C3_Witness ==
  /\ store_kind = "memory"
  /\ last_call.op = "check_approval"
  /\ ret = "True"
  /\ last_call.command \notin DOMAIN approvals

\* C4: on the durable store a check of a command held at scope Once returns
\* true and deletes the record in the same call.
C4_OnceConsumedDurable ==
  [][ (Called("check_approval") /\ store_kind = "persistent"
         /\ HoldsOnce(last_call'.command))
      => (ret' = "True" /\ last_call'.command \notin DOMAIN approvals')
    ]_vars

\* C5: on the in-memory store clear_session_approvals leaves exactly the
\* records that were Persistent before the call, scopes unchanged.
C5_ClearSessionInMemory ==
  [][ (Called("clear_session_approvals") /\ store_kind = "memory")
      => approvals' = PersistentOnly(approvals)
    ]_vars

\* clear_session_approvals removed records of the in-memory store and a
\* Persistent record is still there.
C5_Witness ==
  /\ store_kind = "memory"
  /\ last_call.op = "clear_session_approvals"
  /\ ~grants.only_adds
  /\ \E c \in DOMAIN approvals : approvals[c] = PERSISTENT

\* C6: on the durable store, after clear_session_approvals no Session or Once
\* record is left, and the Persistent records in memory and the file are
\* untouched.
C6_ClearSessionDurable ==
  [][ (Called("clear_session_approvals") /\ store_kind = "persistent")
      => (approvals' = PersistentOnly(approvals) /\ file' = file)
    ]_vars

\* C7: a Denied validation is terminal for the manager: check returns false
\* for it and grant records no approval for it.
C7_DeniedIsTerminal ==
  [][ /\ (Called("check_approval") /\ last_call'.result = DENIED)
         => ret' = "False"
      /\ (Called("handle_approval_request") /\ last_call'.result = DENIED)
         => approvals' = approvals
    ]_vars

\* What a new durable store constructed from the same path holds.
Reconstructed == LoadOutcome(file, EmptyDict).approvals

\* C8: after any sequence of add_approval calls on a durable store, a store
\* reconstructed from the path holds every command last granted Persistent
\* and no command last granted Session or Once.
C8_PersistenceRoundTrip ==
  (store_kind = "persistent" /\ grants.only_adds) =>
    \A c \in DOMAIN grants.recent :
      IF grants.recent[c] = PERSISTENT
      THEN c \in DOMAIN Reconstructed
      ELSE c \notin DOMAIN Reconstructed

\* C9: started from a missing or store-written file, every record in the
\* file has scope Persistent in every reachable state.
C9_OnlyPersistentOnDisk ==
  file.kind = "object" => \A c \in DOMAIN file.data : file.data[c] = "persistent"

\* The file was written while the store held a record that is not Persistent.
C9_Witness ==
  /\ store_kind = "persistent"
  /\ last_call.op \in {"save", "remove_approval"}
  /\ file.kind = "object"
  /\ DOMAIN file.data # {}
  /\ \E c \in DOMAIN approvals : approvals[c] # PERSISTENT

\* C10: whatever the file holds - nothing, no bytes, unparseable text, or
\* JSON that is not a command-to-scope mapping - constructing the durable
\* store raises nothing and the store lists no records.
IsScopeMapping(f) ==
  f.kind = "object" /\ \A c \in DOMAIN f.data : ScopeFromValue(f.data[c]) # None
C10_ConstructNeverRaises ==
  last_call.op = "PersistentApprovalStore" =>
    /\ raised = "none"
    /\ ~IsScopeMapping(file) => (store_kind = "persistent" /\ approvals = EmptyDict)

(***************************************************************************)
(* Properties of the scoped-pattern backend (checked under SpecStores).    *)
(***************************************************************************)
\* A pattern of the list covers the command.
ListCovers(list, command) ==
  \E i \in 1..Len(list) : PatternMatchTable[command][list[i]]
PersistentCovers(command) ==
  persistent_file.kind = "object" /\ ListCovers(persistent_file.approvals, command)
SessionCovers(s, command) ==
  s \in DOMAIN session_approvals /\ ListCovers(session_approvals[s], command)
\* The sessions other than s are exactly as they were.
OtherSessionsUnchanged(s) ==
  /\ DOMAIN session_approvals' \ {s} = DOMAIN session_approvals \ {s}
  /\ \A t \in DOMAIN session_approvals \ {s} :
       session_approvals'[t] = session_approvals[t]

\* C11: a pattern granted at Session scope for session s is stored under s
\* only; has(command, s) is true for the commands the patterns of s cover; and
\* when no persistent pattern covers the command, has is true only through a
\* pattern of the very session asked for, never for another session id nor
\* without one.
C11_SessionIsolation ==
  [][ /\ (Called("store_approval") /\ last_call'.scope = SESSION
            /\ Truthy(last_call'.session_id))
         => /\ last_call'.session_id[1] \in DOMAIN session_approvals'
            /\ InList(last_call'.command, session_approvals'[last_call'.session_id[1]])
            /\ OtherSessionsUnchanged(last_call'.session_id[1])
            /\ persistent_file' = persistent_file
      /\ (Called("has_approval") /\ store_kind = "scoped" /\ raised' = "none")
         => /\ (Truthy(last_call'.session_id)
                  /\ SessionCovers(last_call'.session_id[1], last_call'.command))
               => ret' = "True"
            /\ (ret' = "True" /\ ~PersistentCovers(last_call'.command))
               => /\ Truthy(last_call'.session_id)
                  /\ SessionCovers(last_call'.session_id[1], last_call'.command)
    ]_vars

\* has was asked for session s2 and without a session about a command that
\* only a pattern of session s1 covers, and answered false.
C11_Witness ==
  /\ store_kind = "scoped"
  /\ last_call.op = "has_approval"
  /\ last_call.session_id \in {None, Some("s2")}
  /\ ret = "False"
  /\ SessionCovers("s1", last_call.command)
  /\ ~SessionCovers("s2", last_call.command)

SessionHolds(s, pattern) ==
  s \in DOMAIN session_approvals /\ InList(pattern, session_approvals[s])

\* How many records the list holds for the pattern.
Occurrences(list, pattern) ==
  Cardinality({i \in 1..Len(list) : list[i] = pattern})

\* C12: adding a (command, Session) approval that the store already holds
\* changes nothing - the in-memory and the durable store keep their map and
\* the file, the scoped store keeps the session's list - and after an add the
\* store holds exactly one record for it.
C12_AddIsIdempotent ==
  [][ /\ (Called("add_approval") /\ last_call'.scope = SESSION)
         => /\ last_call'.command \in DOMAIN approvals'
            /\ approvals'[last_call'.command] = SESSION
            /\ (last_call'.command \in DOMAIN approvals
                  /\ approvals[last_call'.command] = SESSION)
               => (approvals' = approvals /\ file' = file)
      /\ (Called("store_approval") /\ last_call'.scope = SESSION
            /\ Truthy(last_call'.session_id))
         => /\ last_call'.session_id[1] \in DOMAIN session_approvals'
            /\ Occurrences(session_approvals'[last_call'.session_id[1]],
                           last_call'.command) = 1
            /\ SessionHolds(last_call'.session_id[1], last_call'.command)
               => session_approvals' = session_approvals
    ]_vars

\* The last call added again, at Session scope, a pattern that the session
\* held already (another pattern was added after it).
C12_Witness ==
  /\ store_kind = "scoped"
  /\ last_call.op = "store_approval"
  /\ last_call.scope = SESSION
  /\ last_call.session_id = Some("s1")
  /\ "s1" \in DOMAIN session_approvals
  /\ Len(session_approvals["s1"]) = 2
  /\ session_approvals["s1"][1] = last_call.command

\* C16: cleanup_session_approvals(s) leaves no pattern stored for session s
\* and changes nothing else: every other session keeps its patterns and the
\* persistent patterns file is as it was; for a session without patterns it
\* changes nothing at all, and it never raises.
C16_CleanupOnlyThatSession ==
  [][ Called("cleanup_session_approvals")
      => /\ raised' = "none"
         /\ last_call'.session_id[1] \notin DOMAIN session_approvals'
         /\ OtherSessionsUnchanged(last_call'.session_id[1])
         /\ persistent_file' = persistent_file
         /\ last_call'.session_id[1] \notin DOMAIN session_approvals
            => session_approvals' = session_approvals
    ]_vars

\* Session s1 was cleaned up while session s2 and the persistent file hold
\* patterns.
C16_Witness ==
  /\ store_kind = "scoped"
  /\ last_call.op = "cleanup_session_approvals"
  /\ last_call.session_id = Some("s1")
  /\ "s1" \notin DOMAIN session_approvals
  /\ "s2" \in DOMAIN session_approvals
  /\ Len(session_approvals["s2"]) = 2
  /\ persistent_file.kind = "object"
  /\ persistent_file.approvals # <<>>

\* A pattern of the list equals the command or matches it as a shell glob
\* (`*`, `?`, character classes).
EqualsOrGlobMatches(list, command) ==
  \E i \in 1..Len(list) : list[i] = command \/ FnMatch(command, list[i])

\* C18: has(command, session) is true exactly when some persistent pattern,
\* or some pattern stored for that session, equals the command or
\* glob-matches it.
C18_ExactOrGlobMatch ==
  [][ (Called("has_approval") /\ store_kind = "scoped" /\ raised' = "none")
      => (ret' = "True"
            <=> \/ /\ persistent_file.kind = "object"
                   /\ EqualsOrGlobMatches(persistent_file.approvals, last_call'.command)
                \/ /\ Truthy(last_call'.session_id)
                   /\ last_call'.session_id[1] \in DOMAIN session_approvals
                   /\ EqualsOrGlobMatches(session_approvals[last_call'.session_id[1]],
                                          last_call'.command))
    ]_vars

(***************************************************************************)
(* Further properties of the stores and the manager (SpecApprovals).       *)
(***************************************************************************)
\* C15: clear_approvals on the durable store empties the in-memory map and
\* leaves the file exactly as it was; a load() right after it brings back
\* every Persistent record of a well-formed file.
C15_ClearLeavesFile ==
  [][ /\ (Called("clear_approvals") /\ store_kind = "persistent")
         => (approvals' = EmptyDict /\ file' = file)
      /\ (Called("load") /\ last_call.op = "clear_approvals"
            /\ store_kind = "persistent" /\ IsScopeMapping(file))
         => \A c \in DOMAIN file.data :
              file.data[c] = "persistent"
                => (c \in DOMAIN approvals' /\ approvals'[c] = PERSISTENT)
    ]_vars

\* The durable store was cleared and the file still lists a Persistent record.
C15_Witness ==
  /\ store_kind = "persistent"
  /\ last_call.op = "clear_approvals"
  /\ approvals = EmptyDict
  /\ file.kind = "object"
  /\ \E c \in DOMAIN file.data : file.data[c] = "persistent"

\* The scope an imported item is to be stored with: the one it names when
\* that is a scope, Session otherwise.
ExpectedImportScope(item) ==
  IF item.scope = Some("once") THEN ONCE
  ELSE IF item.scope = Some("persistent") THEN PERSISTENT
  ELSE SESSION
\* The position of the last item of the list that carries the command (0: none).
LastItemFor(data, command) ==
  LET idx == {i \in 1..Len(data) : data[i].command = command} IN
  IF idx = {} THEN 0 ELSE CHOOSE i \in idx : \A j \in idx : j <= i

\* C13: import_approvals raises nothing whatever scope values the items
\* carry; every command carried by an item ends up stored with the scope its
\* (last) item names when that is a recognized scope and with Session
\* otherwise, so the items after an unrecognized scope are imported too; the
\* records of the other commands are untouched.
C13_ImportDefaultsToSession ==
  [][ Called("import_approvals")
      => /\ raised' = "none"
         /\ \A c \in StoreCommands \ {Cmd_empty} :
              LET last == LastItemFor(last_call'.input, c) IN
              IF last > 0
              THEN /\ c \in DOMAIN approvals'
                   /\ approvals'[c] = ExpectedImportScope(last_call'.input[last])
              ELSE /\ (c \in DOMAIN approvals') = (c \in DOMAIN approvals)
                   /\ c \in DOMAIN approvals => approvals'[c] = approvals[c]
    ]_vars

\* An import whose first item names an unrecognized scope and whose second
\* item names Persistent was carried out and the command is held Persistent.
C13_Witness ==
  /\ last_call.op = "import_approvals"
  /\ Len(last_call.input) = 2
  /\ last_call.input[1].scope = Some("bogus")
  /\ last_call.input[2].scope = Some("persistent")
  /\ Cmd_ls \in DOMAIN approvals
  /\ approvals[Cmd_ls] = PERSISTENT

\* The answers of the model that are `y` or `yes` once trimmed and lowercased.
AcceptedAnswers ==
  {Line(<<"y">>), Line(<<"Y">>), Line(<<" ", "y", "e", "s", " ">>),
   Line(<<"Y", "E", "S">>), Line(<<"y", "E", "s">>)}

\* C14: request_approval with the default prompt returns true exactly for
\* the answers that are `y` or `yes` once trimmed and lowercased, false for
\* every other line and for end-of-input and a user interrupt, and raises
\* nothing.
C14_PromptAcceptsYes ==
  [][ Called("request_approval")
      => /\ raised' = "none"
         /\ ret' = IF last_call'.input \in AcceptedAnswers THEN "True" ELSE "False"
    ]_vars

\* An upper-case, padded answer was accepted.
C14_Witness ==
  /\ last_call.op = "request_approval"
  /\ last_call.input \in {Line(<<"Y", "E", "S">>), Line(<<" ", "y", "e", "s", " ">>)}
  /\ ret = "True"

\* The contents a synchronous store can have.
StoreContents ==
  UNION {[keys -> ApprovalScope] : keys \in SUBSET StoreCommands}

\* C17: importing the list that export produces for any store content into
\* an empty store reproduces exactly that content.
C17_ExportImportRoundTrip ==
  [][ \A content \in StoreContents :
        (Called("import_approvals") /\ approvals = EmptyDict
           /\ last_call'.input = ExportedList(content))
        => approvals' = content
    ]_vars

(***************************************************************************)
(* Further properties of the pattern engine.                               *)
(***************************************************************************)
\* The first deny rule matching the command among the rules that are
\* (regex = TRUE) or are not (regex = FALSE) regex-like, 0 if there is none.
RegexLikeDenyHits(command, regex) ==
  {i \in 1..Len(deny_patterns) :
     /\ IsRegexPattern(deny_patterns[i].pattern) = regex
     /\ MatchesPattern(command, deny_patterns[i].pattern)}
FirstRegexLikeDenyHit(command, regex) ==
  LET hits == RegexLikeDenyHits(command, regex) IN
  IF hits = {} THEN 0 ELSE CHOOSE i \in hits : \A j \in hits : i <= j

\* C21: the deny rules are partitioned by the regex-like predicate (begins
\* with ^, ends with $, or contains one of ()[]{}+?\): the rule reported for
\* a denied command is the first match of the regex-like rules or the first
\* match of the other rules, chosen by the tie-break.
C21_PartitionIsRegexLike ==
  validation # None =>
    LET v == validation[1]
        g == FirstRegexLikeDenyHit(v.command, FALSE)
        r == FirstRegexLikeDenyHit(v.command, TRUE)
    IN (g > 0 \/ r > 0) =>
         /\ v.matched_pattern # None
         /\ v.matched_pattern[1] =
              deny_patterns[IF g > 0 /\ r > 0
                            THEN IF Contains(v.command, <<"-", "-">>) THEN r ELSE g
                            ELSE IF g > 0 THEN g ELSE r]

\* The pattern is regex-like and re.compile rejects it.
FailsToCompile(pattern) == IsRegexPattern(pattern) /\ ~RegexCompile(pattern).ok

\* The glob half of C22 on its own: a deny rule that does not compile and
\* glob-matches the whole command denies it.
UncompilableDenyRuleMatchesAsGlob ==
  validation # None =>
    \A i \in 1..Len(deny_patterns) :
      (/\ FailsToCompile(deny_patterns[i].pattern)
       /\ FnMatch(validation[1].command, deny_patterns[i].pattern))
        => validation[1].result = DENIED

\* C22: a rule whose regex-like pattern fails to compile never makes
\* validate_command raise; that rule is matched as a glob against the whole
\* command.
C22_UncompilableRuleNeverRaises ==
  /\ last_call.op = "validate_command" => raised = "none"
  /\ UncompilableDenyRuleMatchesAsGlob

\* The keyword ladder as C23 words it.
LadderCritical ==
  << <<"r", "m", " ", "-", "r", "f">>,
     <<"s", "u", "d", "o", " ", "r", "m">>,
     <<"f", "o", "r", "m", "a", "t">>,
     <<"d", "d", " ", "i", "f", "=">>,
     <<"c", "h", "m", "o", "d", " ", "7", "7", "7">>,
     <<"m", "k", "f", "s">> >>
LadderHigh ==
  << <<"s", "u", "d", "o">>,
     <<"r", "m">>,
     <<"d", "e", "l">>,
     <<"c", "h", "m", "o", "d">>,
     <<"c", "h", "o", "w", "n">>,
     <<"m", "v">> >>
LadderMedium ==
  << <<"g", "i", "t", " ", "r", "e", "s", "e", "t">>,
     <<"g", "i", "t", " ", "c", "l", "e", "a", "n">>,
     <<"n", "p", "m", " ", "i", "n", "s", "t", "a", "l", "l">>,
     <<"p", "i", "p", " ", "i", "n", "s", "t", "a", "l", "l">> >>
LadderRisk(text) ==
  IF AnyKeywordIn(LadderCritical, text) THEN "critical"
  ELSE IF AnyKeywordIn(LadderHigh, text) THEN "high"
  ELSE IF AnyKeywordIn(LadderMedium, text) THEN "medium"
  ELSE "low"

\* C23: the risk reported for a denied command is the keyword ladder applied
\* to the matched deny rule's pattern text: Critical for rm -rf, sudo rm,
\* format, dd if=, chmod 777, mkfs; else High for sudo, rm, del, chmod,
\* chown, mv; else Medium for git reset, git clean, npm install, pip
\* install; else Low.
C23_DeniedRiskIsKeywordLadder ==
  (validation # None /\ validation[1].result = DENIED) =>
    validation[1].risk_level = LadderRisk(Lower(validation[1].matched_pattern[1].pattern))

\* The rules an entry list stands for, in its order.
RulesOf(entries, is_allow) ==
  [i \in 1..Len(entries) |-> SafetyPattern(entries[i][1], is_allow)]

\* The success half of C24 on its own: after an import that returns, the two
\* lists are exactly the imported rules in their order.
ImportReplacesRuleSet ==
  [][(Called("import_patterns") /\ raised' = "none")
       => /\ allow_patterns' = RulesOf(last_call'.input.allow_patterns, TRUE)
          /\ deny_patterns' = RulesOf(last_call'.input.deny_patterns, FALSE)
    ]_vars

\* C24: import_patterns replaces the rule set atomically: after a call that
\* returns, the allow and deny lists are exactly the imported rules in their
\* order; after a call that fails at an entry without a pattern, the engine
\* holds the rule set it had before the call.
C24_ImportIsAtomic ==
  [][Called("import_patterns") =>
       IF raised' = "none"
       THEN /\ allow_patterns' = RulesOf(last_call'.input.allow_patterns, TRUE)
            /\ deny_patterns' = RulesOf(last_call'.input.deny_patterns, FALSE)
       ELSE /\ allow_patterns' = allow_patterns
            /\ deny_patterns' = deny_patterns
    ]_vars

(***************************************************************************)
(* Further properties of the approval stores and the manager.              *)
(***************************************************************************)
\* C25: check_approval is read-only for records that are not Once: when the
\* record found for validation.command has scope Session or Persistent, the
\* check returns true and leaves the records and the file as they were; and
\* it returns true only when a record's key equals validation.command.
C25_CheckIsReadOnlyForLastingScopes ==
  [][Called("check_approval") =>
       /\ (/\ last_call'.command \in DOMAIN approvals
           /\ approvals[last_call'.command] \in {SESSION, PERSISTENT})
            => (ret' = "True" /\ approvals' = approvals /\ file' = file)
       /\ ret' = "True" => last_call'.command \in DOMAIN approvals
    ]_vars

\* A Session record was checked on the in-memory store and is still held,
\* next to a record for the other command.
C25_Witness ==
  /\ store_kind = "memory"
  /\ last_call.op = "check_approval"
  /\ ret = "True"
  /\ last_call.command \in DOMAIN approvals
  /\ approvals[last_call.command] = SESSION
  /\ DOMAIN approvals = StoreCommands

\* The file holds a Persistent record for the command.
OnDisk(f, command) ==
  f.kind = "object" /\ command \in DOMAIN f.data /\ f.data[command] = "persistent"

\* C28: in the durable store a command written to the file as Persistent
\* stays in the file until remove_approval is called for it: an add_approval
\* for another command, clear_approvals, a manager check and
\* clear_session_approvals all leave it on disk.  (The command itself has
\* not been added again at another scope since it was written.)
C28_PersistentStaysOnDisk ==
  [][\A c \in StoreCommands :
       (/\ store_kind = "persistent"
        /\ OnDisk(file, c)
        /\ c \in DOMAIN approvals => approvals[c] = PERSISTENT
        /\ \/ Called("add_approval") /\ last_call'.command # c
           \/ Called("clear_approvals")
           \/ Called("check_approval")
           \/ Called("clear_session_approvals"))
         => OnDisk(file', c)
    ]_vars

\* C29: when add_approval(command, PERSISTENT) on the durable store raises
\* because writing the file fails, the in-memory records are what they were
\* before the call.
C29_FailedAddLeavesMemoryUnchanged ==
  [][(Called("add_approval") /\ store_kind = "persistent" /\ raised' # "none")
       => approvals' = approvals
    ]_vars

(***************************************************************************)
(* Properties under concurrent callers.                                    *)
(***************************************************************************)
\* C26: consuming a Once approval is atomic with respect to concurrent
\* callers: when two callers run check_approval concurrently on a store that
\* holds a single Once record for the command, at most one of them returns
\* true.
C26_OnceConsumedByOneCaller ==
  \A t1 \in Callers, t2 \in Callers :
    (/\ t1 # t2
     /\ tasks[t1].pc = "done" /\ tasks[t2].pc = "done"
     /\ tasks[t1].command = tasks[t2].command
     /\ tasks[t1].held_once /\ tasks[t2].held_once)
      => ~(tasks[t1].ret = "True" /\ tasks[t2].ret = "True")

\* No instance is inside a call.
WritersAtRest == \A t \in Callers : tasks[t].pc \in {"new", "idle"}

\* C27: last writer wins on the durable file: once the writing operations
\* of the two instances have finished, the file holds exactly the Persistent
\* records held in memory by the instance whose write happened last.
C27_LastWriterWins ==
  \A t \in Callers :
    (WritersAtRest /\ tasks[t].last) => file = SaveFile(tasks[t].approvals)

\* C30: no lost update in the scoped store: after two concurrent
\* store_approval calls with scope Persistent for two different patterns
\* have both completed, the persistent file contains both patterns and
\* has_approval is true for each.
C30_NoLostUpdate ==
  \A t1 \in Callers, t2 \in Callers :
    (/\ tasks[t1].pc = "done" /\ tasks[t2].pc = "done"
     /\ tasks[t1].raised = "none" /\ tasks[t2].raised = "none"
     /\ tasks[t1].pattern # tasks[t2].pattern)
      => /\ persistent_file.kind = "object"
         /\ InList(tasks[t1].pattern, persistent_file.approvals)
         /\ InList(tasks[t2].pattern, persistent_file.approvals)
         /\ HasPersistentApproval(persistent_file, tasks[t1].pattern).value
         /\ HasPersistentApproval(persistent_file, tasks[t2].pattern).value

====
